---------------------------- MODULE Spec2Model ----------------------------
(***************************************************************************)
(* Real-time chat coordinator of UG-EMPRENDE: presence counters, privacy   *)
(* toggles, presence watches, conversation rooms, message / read fan-out,  *)
(* blocking and message history.                                           *)
(*                                                                         *)
(* Modelled from src/src/userService.js (lines 83-623 hold the socket      *)
(* server, lines 1-81 the block helpers), src/src/chatService.js and       *)
(* src/src/routes (HTTP routes for blocks and history).  src/src/server.js *)
(* is an older snapshot of the same socket server; its joinOrder handler,  *)
(* which leaves no room, is modelled as ServerJoinResolved.                *)
(*                                                                         *)
(* Every socket handler is cut at its awaits on external I/O (database,    *)
(* notification service): the code between two such awaits is one action.  *)
(* io.in(room).fetchSockets() of the in-memory adapter takes its snapshot  *)
(* at the call; where an I/O await follows before the emission (the block  *)
(* lookup of 'message') the snapshot is kept in the pending task.          *)
(***************************************************************************)
EXTENDS Integers, Sequences, FiniteSets, TLC

VARIABLES
    status,               \* socket id -> "open" | "closed" (connected or not)
    data,                 \* socket.data.conversationId (NoConv: unset)
    rooms,                \* socket id -> set of conversation ids c with the socket in room chat:<c>
    connectionsByUser,    \* Map userId -> count
    lastSeenByUser,       \* Map userId -> timestamp
    privacyByUser,        \* Map userId -> {showConnectionStatus, showReadReceipts}
    chatEmailByUser,      \* Map userId -> boolean
    socketsWatchingUser,  \* Map subjectUserId -> Set(socketId)
    watchedUsersBySocket, \* Map socketId -> Set(subjectUserId)
    user_blocks,          \* table user_blocks: set of <<blocker_id, blocked_id>>
    messages,             \* table messages, in insertion order
    tasks,                \* handlers suspended at an await: set of continuation records
    clock,                \* the time new Date() returns
    emitted,              \* the socket events emitted by the last step
    issued,               \* the external requests (durable writes, notifications) issued by the last step
    lastQuery,            \* the answer of GET /:chatId/messages given by the last step
    hist                  \* history variable: <<message id, blocker, blocked>> for the blocks in force when a message was stored,
                          \* <<0, socket, subject>> for a subject a presence:watch request dropped

vars == << status, data, rooms, connectionsByUser, lastSeenByUser, privacyByUser,
           chatEmailByUser, socketsWatchingUser, watchedUsersBySocket, user_blocks,
           messages, tasks, clock, emitted, issued, lastQuery, hist >>

----------------------------------------------------------------------------
(* Bounds of the model *)

\* Largest timestamp new Date() is let to reach; the clock stops advancing there.
MaxClock == 2

\* Most handlers suspended at an await at one time.
MaxPending == 2

\* Most rows of the messages table.
MaxMessages == 2

----------------------------------------------------------------------------
(* The universe: users, sockets, the rows of the external tables *)

Null == "null"

\* JavaScript falsiness of a string-or-null value
Falsy(x) == x \in {Null, ""}

Users == {"A", "B", "C"}

Sockets == {"s1", "s2", "s3"}

\* socket.handshake.query.userId
HandshakeUser == [s \in Sockets |-> CASE s = "s1" -> "A"
                                      [] s = "s2" -> "A"
                                      [] OTHER    -> "B"]

\* thisUserId = userId || null
ThisUserId(s) == IF Falsy(HandshakeUser[s]) THEN Null ELSE HandshakeUser[s]

NoConv == << >>

\* Identifiers are kept as their ':'-separated parts: "conv:biz1:A" is <<"conv","biz1","A">>.
ConvA == <<"conv", "biz1", "A">>
ConvC == <<"conv", "biz1", "C">>
Order1 == <<"o1">>
Order2 == <<"o2">>

\* table orders: id -> business_id, customer_id
OrderRows == (Order1 :> [business_id |-> "biz1", customer_id |-> "A"])
          @@ (Order2 :> [business_id |-> "biz1", customer_id |-> "A"])

\* table businesses: id -> owner_id
BusinessOwner == ("biz1" :> "B")

\* A Map: get with the default the code supplies by `|| default`
MapGet(m, k, default) == IF k \in DOMAIN m THEN m[k] ELSE default

MapSet(m, k, v) == (k :> v) @@ m

MapDelete(m, k) == [x \in (DOMAIN m) \ {k} |-> m[x]]

EmptyMap == [x \in {} |-> 0]

Max(a, b) == IF a >= b THEN a ELSE b

Min(a, b) == IF a <= b THEN a ELSE b

----------------------------------------------------------------------------
(* PrivacyStore *)

DefaultPrivacy == [showConnectionStatus |-> TRUE, showReadReceipts |-> TRUE]

getPrivacy(priv, userId) ==
    IF Falsy(userId) THEN DefaultPrivacy
    ELSE [showConnectionStatus |-> MapGet(priv, userId, DefaultPrivacy).showConnectionStatus # FALSE,
          showReadReceipts     |-> MapGet(priv, userId, DefaultPrivacy).showReadReceipts # FALSE]

\* A payload field is "true", "false" or "unset" (absent or not a boolean).
setPrivacy(priv, userId, next) ==
    IF Falsy(userId) THEN priv
    ELSE LET current == getPrivacy(priv, userId) IN
         MapSet(priv, userId,
            [showConnectionStatus |-> IF next.showConnectionStatus = "unset"
                                      THEN current.showConnectionStatus
                                      ELSE next.showConnectionStatus = "true",
             showReadReceipts     |-> IF next.showReadReceipts = "unset"
                                      THEN current.showReadReceipts
                                      ELSE next.showReadReceipts = "true"])

----------------------------------------------------------------------------
(* PresenceTracker *)

\* the increment of a second connection overwrites the first one's
C27_OnlineLosesUpdate(cbu, userId) ==
    IF Falsy(userId) THEN cbu ELSE MapSet(cbu, userId, 1)

setUserOnline(cbu, userId) ==
    IF Falsy(userId) THEN cbu
    ELSE MapSet(cbu, userId, MapGet(cbu, userId, 0) + 1)

\* setUserOffline, the counter: Math.max(0, count - 1), the key deleted at 0
C1_OfflineDoubleDecrement(cbu, userId) ==
    MapSet(cbu, userId, MapGet(cbu, userId, 0) - 2)

setUserOfflineCount(cbu, userId) ==
    LET nextCount == Max(0, MapGet(cbu, userId, 0) - 1) IN
    IF nextCount = 0 THEN MapDelete(cbu, userId) ELSE MapSet(cbu, userId, nextCount)

\* setUserOffline, the timestamp: lastSeenByUser.set(userId, now), whatever nextCount is
setUserOfflineLastSeen(ls, userId, now) == MapSet(ls, userId, now)

isUserOnline(cbu, userId) == MapGet(cbu, userId, 0) > 0

\* 0 stands for "no value" (falsy), so `|| null` yields Null; timestamps start at 1
getLastSeen(ls, userId) ==
    IF MapGet(ls, userId, 0) = 0 THEN Null ELSE ToString(MapGet(ls, userId, 0))

HiddenPayload(subjectUserId) ==
    [userId |-> subjectUserId, visible |-> FALSE, online |-> FALSE, lastSeenAt |-> Null]

C2_PayloadIgnoresViewer(priv, cbu, ls, viewerUserId, subjectUserId) ==
    IF ~getPrivacy(priv, subjectUserId).showConnectionStatus
    THEN HiddenPayload(subjectUserId)
    ELSE [userId |-> subjectUserId, visible |-> TRUE,
          online |-> isUserOnline(cbu, subjectUserId),
          lastSeenAt |-> IF isUserOnline(cbu, subjectUserId) THEN Null
                         ELSE getLastSeen(ls, subjectUserId)]

makePresencePayload(priv, cbu, ls, viewerUserId, subjectUserId) ==
    IF ~getPrivacy(priv, viewerUserId).showConnectionStatus
    THEN HiddenPayload(subjectUserId)
    ELSE IF ~getPrivacy(priv, subjectUserId).showConnectionStatus
    THEN HiddenPayload(subjectUserId)
    ELSE [userId |-> subjectUserId, visible |-> TRUE,
          online |-> isUserOnline(cbu, subjectUserId),
          lastSeenAt |-> IF isUserOnline(cbu, subjectUserId) THEN Null
                         ELSE getLastSeen(ls, subjectUserId)]

\* One emitted socket event: `to` receives event `ev` with `payload`; `by` is the
\* socket whose handler emitted it.
Event(ev, to, by, payload) == [ev |-> ev, to |-> to, by |-> by, payload |-> payload]

\* s.emit() reaches a socket only while it is connected
Deliverable(st, evs) == {e \in evs : st[e.to] = "open"}

----------------------------------------------------------------------------
(* WatchRegistry *)

addPresenceWatch(idx, socketId, subjectUserId) ==
    IF Falsy(subjectUserId) THEN idx
    ELSE [byUser   |-> MapSet(idx.byUser, subjectUserId,
                          MapGet(idx.byUser, subjectUserId, {}) \cup {socketId}),
          bySocket |-> MapSet(idx.bySocket, socketId,
                          MapGet(idx.bySocket, socketId, {}) \cup {subjectUserId})]

\* the socket's own set is deleted, the watcher sets of its subjects are left alone
C12_RemoveKeepsWatchers(idx, socketId) ==
    [byUser |-> idx.byUser, bySocket |-> MapDelete(idx.bySocket, socketId)]

\* the socket is taken out of every watcher set, and a set left empty stays in the map
C28_RemoveKeepsEmptySets(idx, socketId) ==
    [byUser   |-> [u \in DOMAIN idx.byUser |-> idx.byUser[u] \ {socketId}],
     bySocket |-> MapDelete(idx.bySocket, socketId)]

removeAllPresenceWatchesForSocket(idx, socketId) ==
    LET subjects == MapGet(idx.bySocket, socketId, {})
        touched  == subjects \cap DOMAIN idx.byUser
        emptied  == {u \in touched : idx.byUser[u] \ {socketId} = {}}
    IN [byUser   |-> [u \in (DOMAIN idx.byUser) \ emptied |->
                          IF u \in touched THEN idx.byUser[u] \ {socketId}
                          ELSE idx.byUser[u]],
        bySocket |-> MapDelete(idx.bySocket, socketId)]

C15_NotifyNobody(swu, st, priv, cbu, ls, subjectUserId, by) == {}

\* every watcher is shown the subject as the subject's own privacy alone decides
C26_ViewerIsSubject(swu, st, priv, cbu, ls, subjectUserId, by) ==
    IF Falsy(subjectUserId) THEN {}
    ELSE { Event("presence:update", sid, by,
                 makePresencePayload(priv, cbu, ls, subjectUserId, subjectUserId)) :
           sid \in {w \in MapGet(swu, subjectUserId, {}) : st[w] = "open"} }

\* The presence:update events notifyPresenceWatchers(subjectUserId) emits
notifyPresenceWatchers(swu, st, priv, cbu, ls, subjectUserId, by) ==
    IF Falsy(subjectUserId) THEN {}
    ELSE { Event("presence:update", sid, by,
                 makePresencePayload(priv, cbu, ls, ThisUserId(sid), subjectUserId)) :
           sid \in {w \in MapGet(swu, subjectUserId, {}) : st[w] = "open"} }

\* io.in(`chat:${convoId}`).fetchSockets(): the connected sockets in the room
fetchSockets(st, rm, convoId) == {s \in Sockets : st[s] = "open" /\ convoId \in rm[s]}

\* presence:update of subject to every socket of a room snapshot
RoomPresence(members, priv, cbu, ls, subjectUserId, by) ==
    { Event("presence:update", s, by,
            makePresencePayload(priv, cbu, ls, ThisUserId(s), subjectUserId)) :
      s \in members }

----------------------------------------------------------------------------
(* ConversationResolver (chatService.js) *)

makeConversationId(businessId, customerId) ==
    IF Falsy(businessId) \/ Falsy(customerId) THEN NoConv
    ELSE <<"conv", businessId, customerId>>

\* parts.slice(2).join(':'): one part is the customer id itself
JoinParts(parts) == IF Len(parts) = 1 THEN parts[1] ELSE parts

\* NoConv (null) unless the id is conv:<businessId>:<customerId>
parseConversationId(conversationId) ==
    IF Len(conversationId) < 3 \/ conversationId[1] # "conv" THEN Null
    ELSE IF Falsy(conversationId[2]) \/ Falsy(conversationId[3]) THEN Null
    ELSE conversationId

ParsedBusiness(conversationId) == conversationId[2]

ParsedCustomer(conversationId) == JoinParts(SubSeq(conversationId, 3, Len(conversationId)))

\* supabase.from('businesses').select('owner_id').eq('id', businessId): owner_id || null
OwnerOf(businessId) == MapGet(BusinessOwner, businessId, Null)

Meta(conversationId, businessId, customerId, ownerUserId, orderId) ==
    [conversationId |-> conversationId, businessId |-> businessId, customerId |-> customerId,
     businessOwnerUserId |-> ownerUserId, orderId |-> orderId]

C20_OrderKeepsOwnId(chatId) == Meta(chatId, Null, Null, Null, NoConv)

resolveConversationMeta(chatId) ==
    IF chatId = NoConv THEN Meta(NoConv, Null, Null, Null, NoConv)
    ELSE IF parseConversationId(chatId) # Null
    THEN Meta(chatId, ParsedBusiness(chatId), ParsedCustomer(chatId),
              OwnerOf(ParsedBusiness(chatId)), NoConv)
    ELSE IF chatId \in DOMAIN OrderRows
    THEN LET order == OrderRows[chatId]
             conversationId == makeConversationId(order.business_id, order.customer_id)
         IN Meta(IF conversationId = NoConv THEN chatId ELSE conversationId,
                 order.business_id, order.customer_id, OwnerOf(order.business_id), chatId)
    ELSE Meta(chatId, Null, Null, Null, NoConv)

resolveRoomId(inputId) ==
    IF resolveConversationMeta(inputId).conversationId = NoConv THEN inputId
    ELSE resolveConversationMeta(inputId).conversationId

\* [customerId, ownerId].filter(Boolean)
Participants(meta) == {u \in {meta.customerId, meta.businessOwnerUserId} : ~Falsy(u)}

----------------------------------------------------------------------------
(* Pending continuations *)

\* A handler of socket c suspended at an await: h the event, pc the await, conv the
\* conversation id it works on, x what else it holds in its locals.
Task(h, pc, c, conv, x) == [h |-> h, pc |-> pc, c |-> c, conv |-> conv, x |-> x]

NoLocals == [none |-> TRUE]

CanSuspend(t) == t \notin tasks /\ Cardinality(tasks) < MaxPending

\* A socket id is never reused while a handler of the old socket is pending or a
\* pending fan-out holds it in its snapshot.
Referenced(s) ==
    \E t \in tasks : t.c = s \/ (t.h = "message" /\ t.pc = "lookup" /\ s \in t.x.sockets)

Tick(t) == IF t < MaxClock THEN t + 1 ELSE t

NoQuery == [viewer |-> Null, chatId |-> NoConv, status |-> 0, queryOk |-> TRUE,
            blocksOk |-> TRUE, result |-> << >>]

Quiet == /\ emitted' = {}
         /\ issued' = {}
         /\ lastQuery' = NoQuery

Init ==
    /\ status = [s \in Sockets |-> "closed"]
    /\ data = [s \in Sockets |-> NoConv]
    /\ rooms = [s \in Sockets |-> {}]
    /\ connectionsByUser = EmptyMap
    /\ lastSeenByUser = EmptyMap
    /\ privacyByUser = EmptyMap
    /\ chatEmailByUser = EmptyMap
    /\ socketsWatchingUser = EmptyMap
    /\ watchedUsersBySocket = EmptyMap
    /\ user_blocks = {}
    /\ messages = << >>
    /\ tasks = {}
    /\ clock = 1
    /\ emitted = {}
    /\ issued = {}
    /\ lastQuery = NoQuery
    /\ hist = {}

----------------------------------------------------------------------------
(* io.on('connection') and socket.on('disconnect') *)

ConnectHandler(c) ==
    /\ status[c] # "open"
    /\ ~Referenced(c)
    /\ status' = [status EXCEPT ![c] = "open"]
    /\ data' = [data EXCEPT ![c] = NoConv]
    /\ rooms' = [rooms EXCEPT ![c] = {}]
    /\ connectionsByUser' = setUserOnline(connectionsByUser, ThisUserId(c))
    /\ emitted' = notifyPresenceWatchers(socketsWatchingUser, status', privacyByUser,
                      connectionsByUser', lastSeenByUser, ThisUserId(c), c)
    /\ issued' = {}
    /\ lastQuery' = NoQuery
    /\ UNCHANGED << lastSeenByUser, privacyByUser, chatEmailByUser, socketsWatchingUser,
                    watchedUsersBySocket, user_blocks, messages, tasks, clock >>

Connect(c) ==
    /\ ConnectHandler(c)
    /\ UNCHANGED hist

\* The socket has left its rooms when 'disconnect' fires; the handler runs to its
\* await of the durable last-seen write.
DisconnectHandler(c) ==
    /\ status[c] = "open"
    /\ CanSuspend(Task("disconnect", "write", c, data[c], NoLocals))
    /\ status' = [status EXCEPT ![c] = "closed"]
    /\ rooms' = [rooms EXCEPT ![c] = {}]
    /\ LET idx == removeAllPresenceWatchesForSocket(
                      [byUser |-> socketsWatchingUser, bySocket |-> watchedUsersBySocket], c)
       IN /\ socketsWatchingUser' = idx.byUser
          /\ watchedUsersBySocket' = idx.bySocket
    /\ IF Falsy(ThisUserId(c))
       THEN /\ UNCHANGED << connectionsByUser, lastSeenByUser, tasks, clock >>
            /\ issued' = {}
       ELSE /\ connectionsByUser' = setUserOfflineCount(connectionsByUser, ThisUserId(c))
            /\ lastSeenByUser' = setUserOfflineLastSeen(lastSeenByUser, ThisUserId(c), clock)
            /\ issued' = {[req |-> "profiles.last_seen_at", userId |-> ThisUserId(c),
                           value |-> ToString(MapGet(lastSeenByUser', ThisUserId(c), 0))]}
            /\ clock' = Tick(clock)
            /\ tasks' = tasks \cup {Task("disconnect", "write", c, data[c], NoLocals)}
    /\ emitted' = {}
    /\ lastQuery' = NoQuery
    /\ UNCHANGED << data, privacyByUser, chatEmailByUser, user_blocks, messages >>

Disconnect(c) ==
    /\ DisconnectHandler(c)
    /\ UNCHANGED hist

\* After the write (its failure is swallowed): watchers and the room learn it.
DisconnectNotifyHandler(t) ==
    /\ t \in tasks
    /\ t.h = "disconnect"
    /\ tasks' = tasks \ {t}
    /\ emitted' = notifyPresenceWatchers(socketsWatchingUser, status, privacyByUser,
                      connectionsByUser, lastSeenByUser, ThisUserId(t.c), t.c)
                  \cup (IF t.conv = NoConv THEN {}
                        ELSE RoomPresence(fetchSockets(status, rooms, t.conv), privacyByUser,
                                 connectionsByUser, lastSeenByUser, ThisUserId(t.c), t.c))
    /\ issued' = {}
    /\ lastQuery' = NoQuery
    /\ UNCHANGED << status, data, rooms, connectionsByUser, lastSeenByUser, privacyByUser,
                    chatEmailByUser, socketsWatchingUser, watchedUsersBySocket, user_blocks,
                    messages, clock >>

DisconnectNotify(t) ==
    /\ DisconnectNotifyHandler(t)
    /\ UNCHANGED hist

----------------------------------------------------------------------------
(* socket.on('privacy:update'), 'presence:watch', 'chat:emailNotifications' *)

PrivacyUpdateHandler(c, payload) ==
    /\ status[c] = "open"
    /\ ~Falsy(ThisUserId(c))
    /\ privacyByUser' = setPrivacy(privacyByUser, ThisUserId(c), payload)
    /\ emitted' = notifyPresenceWatchers(socketsWatchingUser, status, privacyByUser',
                      connectionsByUser, lastSeenByUser, ThisUserId(c), c)
                  \cup (IF data[c] = NoConv THEN {}
                        ELSE RoomPresence(fetchSockets(status, rooms, data[c]), privacyByUser',
                                 connectionsByUser, lastSeenByUser, ThisUserId(c), c))
    /\ issued' = {}
    /\ lastQuery' = NoQuery
    /\ UNCHANGED << status, data, rooms, connectionsByUser, lastSeenByUser, chatEmailByUser,
                    socketsWatchingUser, watchedUsersBySocket, user_blocks, messages, tasks,
                    clock >>

PrivacyUpdate(c, payload) ==
    /\ PrivacyUpdateHandler(c, payload)
    /\ UNCHANGED hist

\* .slice(0, 200)
WatchCap == 200

\* Array.from(new Set(list)): the first occurrence of each element, in order
Dedupe(list) ==
    LET firsts == SelectSeq([i \in 1..Len(list) |-> i],
                            LAMBDA i : \A j \in 1..(i - 1) : list[j] # list[i])
    IN [k \in 1..Len(firsts) |-> list[firsts[k]]]

\* the list without the slice
C11_WatchListUncapped(raw) == Dedupe(SelectSeq(raw, LAMBDA v : ~Falsy(v)))

\* raw.map(trim).filter(Boolean).slice(0, 200), then the Set
WatchList(raw) ==
    LET kept == SelectSeq(raw, LAMBDA v : ~Falsy(v))
    IN Dedupe(SubSeq(kept, 1, Min(Len(kept), WatchCap)))

\* for (const uid of list) { if (uid === thisUserId) continue; addPresenceWatch(...) }:
\* each call touches the subject's watcher set and the socket's watch set only, so
\* the loop is the union of its calls
AddWatches(idx, socketId, list, self) ==
    LET subjects == {u \in {list[i] : i \in 1..Len(list)} : u # self /\ ~Falsy(u)}
        One(u)   == addPresenceWatch(idx, socketId, u)
    IN IF subjects = {} THEN idx
       ELSE [byUser   |-> [u \in (DOMAIN idx.byUser) \cup subjects |->
                              IF u \in subjects THEN One(u).byUser[u] ELSE idx.byUser[u]],
             bySocket |-> MapSet(idx.bySocket, socketId,
                              UNION {One(u).bySocket[socketId] : u \in subjects})]

C25_SnapshotSkipsSelf(priv, cbu, ls, c, list) ==
    { Event("presence:update", c, c,
            makePresencePayload(priv, cbu, ls, ThisUserId(c), list[i])) :
      i \in {k \in 1..Len(list) : list[k] # ThisUserId(c)} }

\* "Send snapshot immediately": one presence:update per entry of the list
WatchSnapshot(priv, cbu, ls, c, list) ==
    { Event("presence:update", c, c,
            makePresencePayload(priv, cbu, ls, ThisUserId(c), list[i])) :
      i \in 1..Len(list) }

\* the handler without its effect on the history variable
PresenceWatchHandler(c, raw) ==
    /\ status[c] = "open"
    /\ ~Falsy(ThisUserId(c))
    /\ LET cleared == removeAllPresenceWatchesForSocket(
                          [byUser |-> socketsWatchingUser, bySocket |-> watchedUsersBySocket], c)
           idx == AddWatches(cleared, c, WatchList(raw), ThisUserId(c))
       IN /\ socketsWatchingUser' = idx.byUser
          /\ watchedUsersBySocket' = idx.bySocket
    /\ emitted' = WatchSnapshot(privacyByUser, connectionsByUser, lastSeenByUser, c,
                                WatchList(raw))
    /\ issued' = {}
    /\ lastQuery' = NoQuery
    /\ UNCHANGED << status, data, rooms, connectionsByUser, lastSeenByUser, privacyByUser,
                    chatEmailByUser, user_blocks, messages, tasks, clock >>

PresenceWatch(c, raw) ==
    /\ PresenceWatchHandler(c, raw)
    /\ UNCHANGED hist

ChatEmailNotifications(c, enabled) ==
    /\ status[c] = "open"
    /\ ~Falsy(ThisUserId(c))
    /\ chatEmailByUser' = MapSet(chatEmailByUser, ThisUserId(c), enabled)
    /\ Quiet
    /\ UNCHANGED << status, data, rooms, connectionsByUser, lastSeenByUser, privacyByUser,
                    socketsWatchingUser, watchedUsersBySocket, user_blocks, messages, tasks,
                    clock, hist >>

----------------------------------------------------------------------------
(* socket.on('joinOrder') *)

JoinOrder(c, roomId) ==
    /\ status[c] = "open"
    /\ roomId # NoConv
    /\ CanSuspend(Task("joinOrder", "resolve", c, roomId, NoLocals))
    /\ tasks' = tasks \cup {Task("joinOrder", "resolve", c, roomId, NoLocals)}
    /\ Quiet
    /\ UNCHANGED << status, data, rooms, connectionsByUser, lastSeenByUser, privacyByUser,
                    chatEmailByUser, socketsWatchingUser, watchedUsersBySocket, user_blocks,
                    messages, clock, hist >>

\* The rooms of the socket once it joins convoId: prevConvo left when it differs
SwitchRoom(joined, prevConvo, convoId) ==
    (IF prevConvo # NoConv /\ prevConvo # convoId THEN joined \ {prevConvo} ELSE joined)
        \cup {convoId}

\* resolveRoomId has answered: leave the previous room, join, record the conversation.
JoinResolved(t) ==
    /\ t \in tasks
    /\ t.h = "joinOrder"
    /\ t.pc = "resolve"
    /\ LET convoId == resolveRoomId(t.conv) IN
        /\ rooms' = [rooms EXCEPT ![t.c] = SwitchRoom(rooms[t.c], data[t.c], convoId)]
        /\ data' = [data EXCEPT ![t.c] = convoId]
        /\ tasks' = (tasks \ {t}) \cup {Task("joinOrder", "presence", t.c, convoId, NoLocals)}
    /\ Quiet
    /\ UNCHANGED << status, connectionsByUser, lastSeenByUser, privacyByUser, chatEmailByUser,
                    socketsWatchingUser, watchedUsersBySocket, user_blocks, messages, clock, hist >>

\* server.js, joinOrder: resolveRoomId has answered; the socket joins and records the
\* conversation, and no room is left.
ServerJoinResolved(t) ==
    /\ t \in tasks
    /\ t.h = "joinOrder"
    /\ t.pc = "resolve"
    /\ LET convoId == resolveRoomId(t.conv) IN
        /\ rooms' = [rooms EXCEPT ![t.c] = @ \cup {convoId}]
        /\ data' = [data EXCEPT ![t.c] = convoId]
        /\ tasks' = (tasks \ {t}) \cup {Task("joinOrder", "presence", t.c, convoId, NoLocals)}
    /\ Quiet
    /\ UNCHANGED << status, connectionsByUser, lastSeenByUser, privacyByUser, chatEmailByUser,
                    socketsWatchingUser, watchedUsersBySocket, user_blocks, messages, clock, hist >>

\* resolveConversationMeta(convoId) has answered: the presence exchange of the room.
JoinPresence(t) ==
    /\ t \in tasks
    /\ t.h = "joinOrder"
    /\ t.pc = "presence"
    /\ tasks' = tasks \ {t}
    /\ emitted' =
         Deliverable(status,
            (IF Falsy(ThisUserId(t.c)) THEN {}
             ELSE RoomPresence(fetchSockets(status, rooms, t.conv) \ {t.c}, privacyByUser,
                      connectionsByUser, lastSeenByUser, ThisUserId(t.c), t.c))
            \cup { Event("presence:update", t.c, t.c,
                         makePresencePayload(privacyByUser, connectionsByUser, lastSeenByUser,
                                             ThisUserId(t.c), pid)) :
                   pid \in Participants(resolveConversationMeta(t.conv)) })
    /\ issued' = {}
    /\ lastQuery' = NoQuery
    /\ UNCHANGED << status, data, rooms, connectionsByUser, lastSeenByUser, privacyByUser,
                    chatEmailByUser, socketsWatchingUser, watchedUsersBySocket, user_blocks,
                    messages, clock, hist >>

----------------------------------------------------------------------------
(* socket.on('message') *)

\* typeof text === 'string' && text.trim().length > 0
hasText(payload) == payload.text \notin {Null, "", " "}

\* typeof imageDataUrl === 'string' && imageDataUrl.startsWith('data:')
hasImage(payload) == payload.image = "data:"

\* socket.handshake.query.orderId
HandshakeOrder == [s \in Sockets |-> NoConv]

\* payload.orderId || orderId
RoomIdRaw(c, payload) == IF payload.orderId = NoConv THEN HandshakeOrder[c] ELSE payload.orderId

\* payload.senderId || userId || null
SenderId(c, payload) == IF Falsy(payload.senderId) THEN ThisUserId(c) ELSE payload.senderId

\* the text addImageMessage stores for an uploaded image
ImageText == "__img__:url"

NoMsg == [id |-> 0, order_id |-> NoConv, sender_id |-> Null, text |-> "", created_at |-> 0]

\* addMessage: the row inserted under meta.conversationId || chatId
MessageRow(msgs, chatId, senderId, text, now) ==
    [id |-> Len(msgs) + 1, order_id |-> resolveRoomId(chatId), sender_id |-> senderId,
     text |-> text, created_at |-> now]

MessageLocals(payload, msg, sockets, recipient) ==
    [payload |-> payload, msg |-> msg, sockets |-> sockets, recipient |-> recipient]

\* how many sends have not reached the insert yet
ToPersist == Cardinality({t \in tasks : t.h = "message" /\ t.pc = "persist"})

MessageSend(c, payload) ==
    /\ status[c] = "open"
    /\ RoomIdRaw(c, payload) # NoConv
    /\ hasText(payload) \/ hasImage(payload)
    /\ Len(messages) + ToPersist < MaxMessages
    /\ LET t == Task("message", "persist", c, RoomIdRaw(c, payload),
                     MessageLocals(payload, NoMsg, {}, Null))
       IN /\ CanSuspend(t)
          /\ tasks' = tasks \cup {t}
    /\ Quiet
    /\ UNCHANGED << status, data, rooms, connectionsByUser, lastSeenByUser, privacyByUser,
                    chatEmailByUser, socketsWatchingUser, watchedUsersBySocket, user_blocks,
                    messages, clock, hist >>

\* String(outgoing.sender_id || ... || thisUserId || '')
SenderString(msg) == IF Falsy(msg.sender_id) THEN "" ELSE msg.sender_id

\* the user ids of the room snapshot, without the empty ones and the sender
DestUserIds(sockets, sender) == {ThisUserId(s) : s \in sockets} \ {Null, "", sender}

C17_FailClosed(blocks, sender, destUserIds, lookupOk) ==
    IF lookupOk THEN {b \in destUserIds : <<b, sender>> \in blocks} ELSE destUserIds

\* the one batched query: the blockers of sender among the destinations; a failed
\* query leaves the set empty
BlockedSet(blocks, sender, destUserIds, lookupOk) ==
    IF lookupOk THEN {b \in destUserIds : <<b, sender>> \in blocks} ELSE {}

\* the sockets of the snapshot the message is emitted to
Recipients(sockets, sender, blockedSet) ==
    {s \in sockets : ~(/\ sender # ""
                       /\ ~Falsy(ThisUserId(s))
                       /\ ThisUserId(s) # sender
                       /\ ThisUserId(s) \in blockedSet)}

MessageEvents(st, sockets, sender, blockedSet, msg, clientId, by) ==
    Deliverable(st, { Event("message", s, by, [msg |-> msg, clientId |-> clientId]) :
                      s \in Recipients(sockets, sender, blockedSet) })

\* resolveRoomId and addMessage / addImageMessage have answered.  io is "ok" (row
\* inserted), "error" (insert error: msg is null) or "throw" (addImageMessage threw).
MessagePersist(t, io) ==
    /\ t \in tasks
    /\ t.h = "message"
    /\ t.pc = "persist"
    /\ io = "throw" => hasImage(t.x.payload)
    /\ LET payload == t.x.payload
           convoId == resolveRoomId(t.conv)
           text    == IF hasImage(payload) THEN ImageText ELSE payload.text
           row     == MessageRow(messages, convoId, SenderId(t.c, payload), text, clock)
           sockets == fetchSockets(status, rooms, convoId)
           sender  == SenderString(row)
           lookup  == sender # "" /\ DestUserIds(sockets, sender) # {}
       IN CASE io = "throw" ->
                 /\ tasks' = tasks \ {t}
                 /\ emitted' = {}
                 /\ UNCHANGED << messages, clock, hist >>
            [] io = "error" ->
                 /\ tasks' = (tasks \ {t}) \cup
                        {Task("message", "notify", t.c, convoId,
                              MessageLocals(payload, NoMsg, {}, Null))}
                 /\ emitted' = {}
                 /\ UNCHANGED << messages, clock, hist >>
            [] OTHER ->
                 /\ messages' = Append(messages, row)
                 /\ clock' = Tick(clock)
                 /\ hist' = hist \cup {<<row.id, p[1], p[2]>> : p \in user_blocks}
                 /\ tasks' = (tasks \ {t}) \cup
                        {Task("message", IF lookup THEN "lookup" ELSE "notify", t.c, convoId,
                              MessageLocals(payload, row, IF lookup THEN sockets ELSE {}, Null))}
                 /\ emitted' = IF lookup THEN {}
                               ELSE MessageEvents(status, sockets, sender, {}, row,
                                                  payload.clientId, t.c)
    /\ issued' = {}
    /\ lastQuery' = NoQuery
    /\ UNCHANGED << status, data, rooms, connectionsByUser, lastSeenByUser, privacyByUser,
                    chatEmailByUser, socketsWatchingUser, watchedUsersBySocket, user_blocks >>

\* The blocked-set query has answered: the message goes to the sockets of the snapshot.
MessageDeliver(t, lookupOk) ==
    /\ t \in tasks
    /\ t.h = "message"
    /\ t.pc = "lookup"
    /\ LET sender == SenderString(t.x.msg) IN
       emitted' = MessageEvents(status, t.x.sockets, sender,
                      BlockedSet(user_blocks, sender, DestUserIds(t.x.sockets, sender), lookupOk),
                      t.x.msg, t.x.payload.clientId, t.c)
    /\ tasks' = (tasks \ {t}) \cup
           {Task("message", "notify", t.c, t.conv, MessageLocals(t.x.payload, t.x.msg, {}, Null))}
    /\ issued' = {}
    /\ lastQuery' = NoQuery
    /\ UNCHANGED << status, data, rooms, connectionsByUser, lastSeenByUser, privacyByUser,
                    chatEmailByUser, socketsWatchingUser, watchedUsersBySocket, user_blocks,
                    messages, clock, hist >>

\* msg?.sender_id || payload.senderId || thisUserId || null
BackgroundSender(c, x) ==
    IF ~Falsy(x.msg.sender_id) THEN x.msg.sender_id ELSE SenderId(c, x.payload)

C14_RecipientIsSender(sender, meta) == sender

\* the other participant of the conversation, when the sender is one of the two
recipientUserId(sender, meta) ==
    IF Falsy(sender) THEN Null
    ELSE IF ~Falsy(meta.customerId) /\ sender = meta.customerId THEN meta.businessOwnerUserId
    ELSE IF ~Falsy(meta.businessOwnerUserId) /\ sender = meta.businessOwnerUserId
         THEN meta.customerId
    ELSE Null

LongText == "long text of 121 characters"

\* rawText.startsWith('__img__:') ? the image label : rawText.slice(0, 120)
Preview(rawText) ==
    IF rawText = ImageText THEN "Imagen"
    ELSE IF rawText = LongText THEN "its first 120 characters"
    ELSE rawText

\* io.to(`user:${userId}`): the connected sockets of the user
UserRoom(st, userId) == {s \in Sockets : st[s] = "open" /\ ThisUserId(s) = userId}

PreviewEvents(st, userId, by, convoId, msg, sender) ==
    IF Falsy(userId) THEN {}
    ELSE { Event("chat:preview", s, by,
                 [conversationId |-> convoId, text |-> msg.text, senderId |-> sender,
                  createdAt |-> msg.created_at]) : s \in UserRoom(st, userId) }

\* The background block after delivery: resolveConversationMeta has answered; with a
\* recipient the notification is requested, without one the sender's preview is sent.
MessageNotify(t) ==
    /\ t \in tasks
    /\ t.h = "message"
    /\ t.pc = "notify"
    /\ LET sender    == BackgroundSender(t.c, t.x)
           recipient == recipientUserId(sender, resolveConversationMeta(t.conv))
       IN IF ~Falsy(recipient)
          THEN /\ issued' = {[req |-> "createNotification", userId |-> recipient,
                              value |-> Preview(t.x.msg.text), conversationId |-> t.conv,
                              chatEmailEnabled |-> MapGet(chatEmailByUser, recipient, FALSE),
                              suppressEmail |-> ~MapGet(chatEmailByUser, recipient, FALSE)]}
               /\ tasks' = (tasks \ {t}) \cup
                      {Task("message", "preview", t.c, t.conv,
                            ("chatEmailEnabled" :> MapGet(chatEmailByUser, recipient, FALSE))
                                @@ MessageLocals(t.x.payload, t.x.msg, {}, recipient))}
               /\ emitted' = {}
          ELSE /\ issued' = {}
               /\ tasks' = tasks \ {t}
               /\ emitted' = PreviewEvents(status, sender, t.c, t.conv, t.x.msg, sender)
    /\ lastQuery' = NoQuery
    /\ UNCHANGED << status, data, rooms, connectionsByUser, lastSeenByUser, privacyByUser,
                    chatEmailByUser, socketsWatchingUser, watchedUsersBySocket, user_blocks,
                    messages, clock, hist >>

\* createNotification has returned: chat:preview to the recipient's and the sender's channel.
MessagePreview(t) ==
    /\ t \in tasks
    /\ t.h = "message"
    /\ t.pc = "preview"
    /\ tasks' = tasks \ {t}
    /\ LET sender == BackgroundSender(t.c, t.x) IN
       emitted' = PreviewEvents(status, t.x.recipient, t.c, t.conv, t.x.msg, sender)
                  \cup PreviewEvents(status, sender, t.c, t.conv, t.x.msg, sender)
    /\ issued' = {}
    /\ lastQuery' = NoQuery
    /\ UNCHANGED << status, data, rooms, connectionsByUser, lastSeenByUser, privacyByUser,
                    chatEmailByUser, socketsWatchingUser, watchedUsersBySocket, user_blocks,
                    messages, clock, hist >>

----------------------------------------------------------------------------
(* socket.on('read') *)

ReadReceipt(c, chatId) ==
    /\ status[c] = "open"
    /\ ~Falsy(ThisUserId(c))
    /\ getPrivacy(privacyByUser, ThisUserId(c)).showReadReceipts
    /\ LET t == Task("read", "resolve", c,
                     IF chatId = NoConv THEN HandshakeOrder[c] ELSE chatId, NoLocals)
       IN /\ CanSuspend(t)
          /\ tasks' = tasks \cup {t}
    /\ Quiet
    /\ UNCHANGED << status, data, rooms, connectionsByUser, lastSeenByUser, privacyByUser,
                    chatEmailByUser, socketsWatchingUser, watchedUsersBySocket, user_blocks,
                    messages, clock, hist >>

\* the sockets of the room whose own user shows read receipts
C10_EveryMember(priv, members) == members

ReadViewers(priv, members) ==
    {s \in members : getPrivacy(priv, ThisUserId(s)).showReadReceipts}

\* resolveRoomId has answered: the receipt goes to the room.
ReadEmit(t) ==
    /\ t \in tasks
    /\ t.h = "read"
    /\ tasks' = tasks \ {t}
    /\ LET convoId == resolveRoomId(t.conv) IN
       emitted' = IF convoId = NoConv THEN {}
                  ELSE { Event("read", s, t.c,
                               [conversationId |-> convoId, userId |-> ThisUserId(t.c)]) :
                         s \in ReadViewers(privacyByUser, fetchSockets(status, rooms, convoId)) }
    /\ issued' = {}
    /\ lastQuery' = NoQuery
    /\ UNCHANGED << status, data, rooms, connectionsByUser, lastSeenByUser, privacyByUser,
                    chatEmailByUser, socketsWatchingUser, watchedUsersBySocket, user_blocks,
                    messages, clock, hist >>

----------------------------------------------------------------------------
(* Blocking (POST / DELETE /:id/block) and history (GET /:chatId/messages) *)

blockUser(blocks, blockerId, blockedId) ==
    IF Falsy(blockerId) \/ Falsy(blockedId) THEN blocks ELSE blocks \cup {<<blockerId, blockedId>>}

unblockUser(blocks, blockerId, blockedId) ==
    IF Falsy(blockerId) \/ Falsy(blockedId) THEN blocks ELSE blocks \ {<<blockerId, blockedId>>}

Block(blockerId, blockedId) ==
    /\ <<blockerId, blockedId>> \notin user_blocks
    /\ user_blocks' = blockUser(user_blocks, blockerId, blockedId)
    /\ Quiet
    /\ UNCHANGED << status, data, rooms, connectionsByUser, lastSeenByUser, privacyByUser,
                    chatEmailByUser, socketsWatchingUser, watchedUsersBySocket, messages,
                    tasks, clock, hist >>

Unblock(blockerId, blockedId) ==
    /\ <<blockerId, blockedId>> \in user_blocks
    /\ user_blocks' = unblockUser(user_blocks, blockerId, blockedId)
    /\ Quiet
    /\ UNCHANGED << status, data, rooms, connectionsByUser, lastSeenByUser, privacyByUser,
                    chatEmailByUser, socketsWatchingUser, watchedUsersBySocket, messages,
                    tasks, clock, hist >>

\* table profiles: the users whose role is 'admin'
Admins == {}

\* ensureChatAccess: TRUE when it returns, FALSE when it throws Forbidden
ensureChatAccess(userId, chatId) ==
    LET meta == resolveConversationMeta(chatId) IN
    \/ Falsy(meta.businessId) \/ Falsy(meta.customerId)
    \/ userId = meta.customerId
    \/ (~Falsy(OwnerOf(meta.businessId)) /\ OwnerOf(meta.businessId) = userId)
    \/ userId \in Admins

\* .order('created_at', { ascending: true }): a stable insertion sort on created_at
RECURSIVE OrderByCreatedAt(_)
OrderByCreatedAt(rows) ==
    IF rows = << >> THEN << >>
    ELSE LET front == OrderByCreatedAt(SubSeq(rows, 1, Len(rows) - 1))
             last  == rows[Len(rows)]
             k     == Cardinality({i \in 1..Len(front) : front[i].created_at <= last.created_at})
         IN SubSeq(front, 1, k) \o <<last>> \o SubSeq(front, k + 1, Len(front))

Reverse(seq) == [i \in 1..Len(seq) |-> seq[Len(seq) + 1 - i]]

\* the rows of the thread: order_id is the conversation id, or the legacy order id
ThreadRows(msgs, meta) ==
    SelectSeq(msgs, LAMBDA m :
        \/ m.order_id = meta.conversationId
        \/ (meta.orderId # NoConv /\ meta.orderId # meta.conversationId
            /\ m.order_id = meta.orderId))

C7_GetMessagesDescending(msgs, blocks, chatId, viewerId, queryOk, blocksOk) ==
    LET meta == resolveConversationMeta(chatId)
        list == Reverse(OrderByCreatedAt(ThreadRows(msgs, meta)))
    IN SelectSeq(list, LAMBDA m : <<viewerId, m.sender_id>> \notin blocks)

C8_GetMessagesUnfiltered(msgs, blocks, chatId, viewerId, queryOk, blocksOk) ==
    LET meta == resolveConversationMeta(chatId)
    IN OrderByCreatedAt(ThreadRows(msgs, meta))

\* getMessages(chatId, viewerId).  queryOk is FALSE when the messages query answers
\* with an error, blocksOk is FALSE when the user_blocks query answers without rows.
getMessages(msgs, blocks, chatId, viewerId, queryOk, blocksOk) ==
    LET meta       == resolveConversationMeta(chatId)
        list       == OrderByCreatedAt(ThreadRows(msgs, meta))
        blockedIds == IF blocksOk THEN {p[2] : p \in {q \in blocks : q[1] = viewerId}} ELSE {}
    IN IF chatId = NoConv \/ meta.conversationId = NoConv THEN << >>
       ELSE IF ~queryOk THEN << >>
       ELSE IF Falsy(viewerId) THEN list
       ELSE SelectSeq(list, LAMBDA m : m.sender_id \notin blockedIds)

\* GET /:chatId/messages as req.user.id = viewerId: 403 when ensureChatAccess throws,
\* otherwise the response carries what getMessages returned.
HistoryQuery(viewerId, chatId, queryOk, blocksOk) ==
    /\ lastQuery' =
         IF ensureChatAccess(viewerId, chatId)
         THEN [viewer |-> viewerId, chatId |-> chatId, status |-> 200,
               queryOk |-> queryOk, blocksOk |-> blocksOk,
               result |-> getMessages(messages, user_blocks, chatId, viewerId, queryOk, blocksOk)]
         ELSE [viewer |-> viewerId, chatId |-> chatId, status |-> 403,
               queryOk |-> queryOk, blocksOk |-> blocksOk, result |-> << >>]
    /\ emitted' = {}
    /\ issued' = {}
    /\ UNCHANGED << status, data, rooms, connectionsByUser, lastSeenByUser, privacyByUser,
                    chatEmailByUser, socketsWatchingUser, watchedUsersBySocket, user_blocks,
                    messages, tasks, clock, hist >>

----------------------------------------------------------------------------
(* Presence counters: connections of all sockets, privacy and watches of two *)

PrivacyPayloads ==
    { [showConnectionStatus |-> a, showReadReceipts |-> "unset"] : a \in {"true", "false"} }

WatchInputs == { << >>, <<"A", "B">> }

\* One socket of user A and the socket of user B
Pair == {"s1", "s3"}

Next ==
    \/ \E c \in Sockets : Connect(c)
    \/ \E c \in Sockets : Disconnect(c)
    \/ \E t \in tasks : DisconnectNotify(t)
    \/ \E c \in Pair, payload \in PrivacyPayloads : PrivacyUpdate(c, payload)
    \/ \E c \in Pair, raw \in WatchInputs : PresenceWatch(c, raw)

Spec == Init /\ [][Next]_vars

Count(userId) == MapGet(connectionsByUser, userId, 0)

\* C1: under every interleaving of connects and disconnects, the connection counter
\* of every user is never negative, and isUserOnline(user) is true exactly when the
\* counter is greater than 0.
C1_CounterNeverNegative ==
    \A u \in Users :
        /\ Count(u) >= 0
        /\ \A k \in DOMAIN connectionsByUser : connectionsByUser[k] >= 0
        /\ isUserOnline(connectionsByUser, u) <=> (Count(u) > 0)

\* A user with two connections has closed one: the counter is back at 1, online.
C1_Witness ==
    /\ Count("A") = 1
    /\ "A" \in DOMAIN lastSeenByUser
    /\ isUserOnline(connectionsByUser, "A")
    /\ \E s \in Sockets : HandshakeUser[s] = "A" /\ status[s] = "closed"

\* C3 (as claimed): last-seen of a user is written, in memory or durably, only by
\* a step that leaves the user's counter at 0, and a last-seen value shown in a
\* presence payload is null while the subject is online.
C3_LastSeenOnlyAtZero ==
    /\ [][\A u \in Users :
            (\/ MapGet(lastSeenByUser', u, 0) # MapGet(lastSeenByUser, u, 0)
             \/ \E r \in issued' : r.req = "profiles.last_seen_at" /\ r.userId = u)
            => MapGet(connectionsByUser', u, 0) = 0]_vars
    /\ [](\A e \in emitted :
            (e.ev = "presence:update" /\ isUserOnline(connectionsByUser, e.payload.userId))
            => e.payload.lastSeenAt = Null)

----------------------------------------------------------------------------
(* Presence payloads: every handler that emits presence:update *)

NextPresence ==
    \/ \E c \in Sockets : Connect(c)
    \/ \E c \in Sockets : Disconnect(c)
    \/ \E t \in tasks : DisconnectNotify(t)
    \/ \E c \in Pair, payload \in PrivacyPayloads : PrivacyUpdate(c, payload)
    \/ \E c \in Pair, raw \in WatchInputs : PresenceWatch(c, raw)
    \/ \E c \in Pair : JoinOrder(c, ConvA)
    \/ \E t \in tasks : JoinResolved(t)
    \/ \E t \in tasks : JoinPresence(t)

SpecPresence == Init /\ [][NextPresence]_vars

ShowsStatus(userId) == getPrivacy(privacyByUser, userId).showConnectionStatus

\* C2: every presence:update emitted to a socket of viewer V about subject S has
\* visible = TRUE exactly when both V and S show their connection status, and a
\* payload that is not visible is exactly {visible: false, online: false,
\* lastSeenAt: null}.
C2_PresenceVisibility ==
    \A e \in emitted :
        e.ev = "presence:update" =>
            /\ e.payload.visible <=>
                   (ShowsStatus(ThisUserId(e.to)) /\ ShowsStatus(e.payload.userId))
            /\ ~e.payload.visible =>
                   (e.payload.online = FALSE /\ e.payload.lastSeenAt = Null)

\* A viewer who shows its own status is sent the hidden payload of a subject that
\* hides its status while connected, by a handler of another socket.
C2_Witness ==
    \E e \in emitted :
        /\ e.ev = "presence:update"
        /\ e.by # e.to
        /\ ~e.payload.visible
        /\ ShowsStatus(ThisUserId(e.to))
        /\ ~ShowsStatus(e.payload.userId)
        /\ isUserOnline(connectionsByUser, e.payload.userId)
        /\ e.payload.userId \in DOMAIN lastSeenByUser

----------------------------------------------------------------------------
(* Room membership under the joinOrder handler of server.js *)

JoinRooms == {ConvA, ConvC}

NextServerJoin ==
    \/ \E c \in Pair : Connect(c)
    \/ \E c \in Pair, roomId \in JoinRooms : JoinOrder(c, roomId)
    \/ \E t \in tasks : ServerJoinResolved(t)
    \/ \E t \in tasks : JoinPresence(t)

SpecServerJoin == Init /\ [][NextServerJoin]_vars

\* C4 (as claimed): in every reachable state a connection is in at most one
\* conversation room, and that room is the one recorded in its data.conversationId,
\* after any sequence of joins, overlapping ones included.
C4_AtMostOneRoom ==
    \A c \in Sockets : status[c] = "open" => rooms[c] \subseteq {data[c]}

----------------------------------------------------------------------------
(* Live delivery: user A attends and moves between rooms, user B sends *)

Payload(orderId, text, image, senderId, clientId) ==
    [orderId |-> orderId, text |-> text, image |-> image, senderId |-> senderId,
     clientId |-> clientId]

\* a text to conversation A, under the handshake user id or under the id of user C
ChatPayloads == { Payload(ConvA, "hola", Null, sid, "k1") : sid \in {Null, "C"} }

NextChat ==
    \/ \E c \in Pair : Connect(c)
    \/ \E roomId \in JoinRooms : JoinOrder("s1", roomId)
    \/ \E t \in tasks : JoinResolved(t)
    \/ \E t \in tasks : JoinPresence(t)
    \/ Block("A", "B")
    \/ Unblock("A", "B")
    \/ \E payload \in ChatPayloads : MessageSend("s3", payload)
    \/ \E t \in tasks, io \in {"ok", "error"} : MessagePersist(t, io)
    \/ \E t \in tasks : MessageDeliver(t, TRUE)
    \/ \E t \in tasks : MessageNotify(t)
    \/ \E t \in tasks : MessagePreview(t)

SpecChat == Init /\ [][NextChat]_vars

\* C5 (as claimed): a connection that has completed a join of another conversation
\* is delivered no message of the conversation it left, a message whose fan-out had
\* already enumerated the room included: every message event goes to a connection
\* whose current conversation is the one of the message.
C5_NoDeliveryAfterSwitch ==
    \A e \in emitted :
        e.ev = "message" => data[e.to] = e.payload.msg.order_id

\* C6 (as claimed): a message sent from a connection of user B while user A blocks B
\* is stored, and no message event for it is emitted to a connection of user A (the
\* block is in force when the message is stored and when it is fanned out).
C6_BlockedSenderNotDelivered ==
    \A e \in emitted :
        e.ev = "message" =>
            /\ \E k \in 1..Len(messages) : messages[k] = e.payload.msg
            /\ ~(/\ <<e.payload.msg.id, ThisUserId(e.to), ThisUserId(e.by)>> \in hist
                 /\ <<ThisUserId(e.to), ThisUserId(e.by)>> \in user_blocks)

----------------------------------------------------------------------------
(* History: user B sends, user A blocks, unblocks and reads the thread *)

HistoryPayloads == { Payload(chatId, "hola", Null, Null, "k1") : chatId \in {ConvA, Order1} }

NextHistory ==
    \/ Connect("s3")
    \/ \E payload \in HistoryPayloads : MessageSend("s3", payload)
    \/ \E t \in tasks, io \in {"ok", "error"} : MessagePersist(t, io)
    \/ \E t \in tasks : MessageNotify(t)
    \/ \E t \in tasks : MessagePreview(t)
    \/ Block("A", "B")
    \/ Unblock("A", "B")
    \/ \E viewerId \in {"A", "C"}, chatId \in {ConvA, Order1}, queryOk \in BOOLEAN,
          blocksOk \in BOOLEAN : HistoryQuery(viewerId, chatId, queryOk, blocksOk)

SpecHistory == Init /\ [][NextHistory]_vars

\* the rows of the table that belong to the thread the query asked for
ThreadOf(chatId) == ThreadRows(messages, resolveConversationMeta(chatId))

InResult(m) == \E k \in 1..Len(lastQuery.result) : lastQuery.result[k] = m

\* the query was answered from the store
Answered == lastQuery.status = 200 /\ lastQuery.queryOk

\* m was stored while the viewer of the query blocked its sender
SentWhileBlocked(m) == <<m.id, lastQuery.viewer, m.sender_id>> \in hist

NowBlocked(m) == <<lastQuery.viewer, m.sender_id>> \in user_blocks

\* C7: after block(A,B), messages of B to the A-B conversation and unblock(A,B), a
\* history query of A that the store answers returns every message B sent while
\* blocked, and returns its rows in creation-time order.
C7_HistoryAfterUnblock ==
    Answered =>
        /\ \A k \in 1..Len(ThreadOf(lastQuery.chatId)) :
              LET m == ThreadOf(lastQuery.chatId)[k] IN
              (SentWhileBlocked(m) /\ ~NowBlocked(m)) => InResult(m)
        /\ \A j, k \in 1..Len(lastQuery.result) :
              j < k => lastQuery.result[j].created_at <= lastQuery.result[k].created_at

\* A reads the thread after the unblock: two messages sent while blocked come back,
\* the older one first.
C7_Witness ==
    /\ Answered
    /\ lastQuery.viewer = "A"
    /\ Len(lastQuery.result) = 2
    /\ \A k \in 1..2 : SentWhileBlocked(lastQuery.result[k]) /\ ~NowBlocked(lastQuery.result[k])
    /\ lastQuery.result[1].created_at < lastQuery.result[2].created_at

----------------------------------------------------------------------------
(* Read receipts: users A and B attend conversation A and change their setting *)

ReceiptPayloads ==
    { [showConnectionStatus |-> "unset", showReadReceipts |-> a] : a \in {"true", "false"} }

NextRead ==
    \/ \E c \in Pair : Connect(c)
    \/ \E c \in Pair : Disconnect(c)
    \/ \E t \in tasks : DisconnectNotify(t)
    \/ \E c \in Pair : JoinOrder(c, ConvA)
    \/ \E t \in tasks : JoinResolved(t)
    \/ \E t \in tasks : JoinPresence(t)
    \/ \E c \in Pair, payload \in ReceiptPayloads : PrivacyUpdate(c, payload)
    \/ \E c \in Pair : ReadReceipt(c, ConvA)
    \/ \E t \in tasks : ReadEmit(t)

SpecRead == Init /\ [][NextRead]_vars

ShowsReceipts(userId) == getPrivacy(privacyByUser, userId).showReadReceipts

\* C9 (as claimed): no read event attributed to user U is emitted to any connection
\* while U's showReadReceipts is false, also when U turns it off while a read handler
\* of U is suspended between its privacy check and its emission.
C9_NoReadFromOptedOut ==
    \A e \in emitted :
        e.ev = "read" => ShowsReceipts(e.payload.userId)

\* C10: a connection whose user has showReadReceipts = false when a read event is
\* emitted receives no read event, whatever the setting of the reader is.
C10_OptedOutViewerGetsNoRead ==
    \A e \in emitted :
        e.ev = "read" => ShowsReceipts(ThisUserId(e.to))

\* A read receipt is fanned out to a room that also holds a connection of another
\* user who has turned receipts off: that connection is not among the receivers.
C10_Witness ==
    \E e \in emitted :
        /\ e.ev = "read"
        /\ \E s \in fetchSockets(status, rooms, e.payload.conversationId) :
              /\ ThisUserId(s) # e.payload.userId
              /\ ~ShowsReceipts(ThisUserId(s))
              /\ \A d \in emitted : d.to # s

----------------------------------------------------------------------------
(* Watch lists: requests that are longer than the cap *)

\* a request naming WatchCap + 1 different subjects
LongWatch == [i \in 1..(WatchCap + 1) |-> ToString(i)]

\* the same request with user B put in front twice
LongWatchDup == <<"B", "B">> \o LongWatch

WatchRequests == { << >>, <<"A", "B">>, LongWatch, LongWatchDup }

NextWatch ==
    \/ \E c \in Pair : Connect(c)
    \/ \E c \in Pair : Disconnect(c)
    \/ \E t \in tasks : DisconnectNotify(t)
    \/ \E c \in Pair, raw \in WatchRequests : PresenceWatch(c, raw)

SpecWatch == Init /\ [][NextWatch]_vars

Watched(s) == MapGet(watchedUsersBySocket, s, {})

\* C11: in every reachable state the watch set of each connection holds at most
\* 200 subject ids; a presence:watch request that lists 201 or more subjects
\* retains at most 200 of them.
C11_WatchSetCapped ==
    \A s \in Sockets : Cardinality(Watched(s)) <= WatchCap

\* A connection that asked for 201 subjects watches exactly 200 of them: the
\* first 200 of the request, the last one dropped.
C11_Witness ==
    \E s \in Sockets :
        /\ Cardinality(Watched(s)) = WatchCap
        /\ LongWatch[WatchCap] \in Watched(s)
        /\ LongWatch[WatchCap + 1] \notin Watched(s)

----------------------------------------------------------------------------
(* Watch replacement: two connections of user A watch, user B comes, goes and *)
(* changes its privacy                                                        *)

Watchers == {"s1", "s2"}

ReplaceRequests == { <<"B">>, <<"C">> }

\* presence:watch, with <<0, socket, subject>> logged for every subject the request
\* drops from the socket's watch set
PresenceWatchLogged(c, raw) ==
    /\ PresenceWatchHandler(c, raw)
    /\ hist' = hist \cup
          { <<0, c, u>> : u \in MapGet(watchedUsersBySocket, c, {})
                                  \ MapGet(watchedUsersBySocket', c, {}) }

NextReplace ==
    \/ \E c \in Sockets : Connect(c)
    \/ Disconnect("s3")
    \/ \E t \in tasks : DisconnectNotify(t)
    \/ \E payload \in PrivacyPayloads : PrivacyUpdate("s3", payload)
    \/ \E c \in Watchers, raw \in ReplaceRequests : PresenceWatchLogged(c, raw)

SpecReplace == Init /\ [][NextReplace]_vars

----------------------------------------------------------------------------
(* Delivery: users A and B attend conversation A or stay outside, and send *)
(* under their own ids                                                     *)

DeliverPayloads == { Payload(chatId, "hola", Null, Null, "k1") : chatId \in {ConvA, Order1} }

NextDeliver ==
    \/ \E c \in Pair : Connect(c)
    \/ \E c \in Pair : JoinOrder(c, ConvA)
    \/ \E t \in tasks : JoinResolved(t)
    \/ \E t \in tasks : JoinPresence(t)
    \/ Block("A", "B")
    \/ Unblock("A", "B")
    \/ \E c \in Pair, payload \in DeliverPayloads : MessageSend(c, payload)
    \/ \E t \in tasks, io \in {"ok", "error"} : MessagePersist(t, io)
    \/ \E t \in tasks, lookupOk \in BOOLEAN : MessageDeliver(t, lookupOk)
    \/ \E t \in tasks : MessageNotify(t)
    \/ \E t \in tasks : MessagePreview(t)

SpecDeliver == Init /\ [][NextDeliver]_vars

\* the handler t has stored its message and has just run its emit loop
FannedOut(t) ==
    /\ t \in tasks' /\ t \notin tasks
    /\ t.h = "message" /\ t.pc = "notify"
    /\ t.x.msg.id # 0

MessageEventFor(t, s) ==
    Event("message", s, t.c, [msg |-> t.x.msg, clientId |-> t.x.payload.clientId])

\* C13 (as claimed): for every stored message, each connection in the conversation
\* room whose user has not blocked the sender receives the message event with the
\* text and the canonical conversation id, and the sending connection always
\* receives its own echo with the clientId it supplied.
C13_DeliveredWithEcho ==
    [][\A t \in tasks' :
          FannedOut(t) =>
            /\ t.x.msg.text = t.x.payload.text
            /\ t.x.msg.order_id = resolveRoomId(RoomIdRaw(t.c, t.x.payload))
            /\ status'[t.c] = "open" => MessageEventFor(t, t.c) \in emitted'
            /\ \A s \in fetchSockets(status', rooms', t.x.msg.order_id) :
                  <<ThisUserId(s), t.x.msg.sender_id>> \notin user_blocks'
                      => MessageEventFor(t, s) \in emitted']_vars

----------------------------------------------------------------------------
(* Absent owner: customer A attends conversation A and sends; the owner B *)
(* is connected and joins no room                                          *)

AbsentPayloads ==
    { Payload(chatId, text, Null, Null, "k1") : chatId \in {ConvA, Order1},
                                                 text \in {"hola", LongText} }

NextAbsent ==
    \/ \E c \in Pair : Connect(c)
    \/ JoinOrder("s1", ConvA)
    \/ \E t \in tasks : JoinResolved(t)
    \/ \E t \in tasks : JoinPresence(t)
    \/ \E payload \in AbsentPayloads : MessageSend("s1", payload)
    \/ \E t \in tasks, io \in {"ok", "error"} : MessagePersist(t, io)
    \/ \E t \in tasks : MessageNotify(t)
    \/ \E t \in tasks : MessagePreview(t)

SpecAbsent == Init /\ [][NextAbsent]_vars

\* the background block of t, whose message was stored, has just passed pc
Passed(t, pc) == t \in tasks /\ t \notin tasks' /\ t.h = "message" /\ t.pc = pc /\ t.x.msg.id # 0

NotificationFor(t, userId, value) ==
    [req |-> "createNotification", userId |-> userId, value |-> value,
     conversationId |-> t.conv,
     chatEmailEnabled |-> MapGet(chatEmailByUser, userId, FALSE),
     suppressEmail |-> ~MapGet(chatEmailByUser, userId, FALSE)]

PreviewEventFor(t, s) ==
    Event("chat:preview", s, t.c,
          [conversationId |-> t.conv, text |-> t.x.msg.text, senderId |-> "A",
           createdAt |-> t.x.msg.created_at])

AbsentOutcome(t, value) ==
    /\ Passed(t, "notify") => issued' = {NotificationFor(t, "B", value)}
    /\ Passed(t, "preview") /\ status["s3"] = "open" => PreviewEventFor(t, "s3") \in emitted'

\* C14 (as claimed): for a stored text of A to the conversation with owner B, who
\* is connected outside the room, B's connections get chat:preview and no message
\* event, and the one notification request for B carries the message text.
C14_NotifiedWithWholeText ==
    [][/\ \A t \in tasks : AbsentOutcome(t, t.x.msg.text)
       /\ \A e \in emitted' : e.to = "s3" => e.ev = "chat:preview"
       /\ issued' # {} => \E t \in tasks : t.h = "message" /\ t.pc = "notify" /\ t \notin tasks'
      ]_vars

\* C14 (amended): the same, the notification request carrying the first 120
\* characters of the text (the whole text when it is not longer).
C14_NotifiedWithPreview ==
    [][/\ \A t \in tasks :
             AbsentOutcome(t, IF t.x.msg.text = LongText THEN "its first 120 characters"
                              ELSE t.x.msg.text)
       /\ \A e \in emitted' : e.to = "s3" => e.ev = "chat:preview"
       /\ issued' # {} => \E t \in tasks : t.h = "message" /\ t.pc = "notify" /\ t \notin tasks'
      ]_vars

C14_Witness ==
    /\ rooms["s3"] = {}
    /\ \E e \in emitted : e.to = "s3" /\ e.ev = "chat:preview" /\ e.payload.text = LongText

----------------------------------------------------------------------------
(* Hiding the connection status while watched *)

\* the sockets whose watch list holds subjectUserId
WatchersOf(subjectUserId) == MapGet(socketsWatchingUser, subjectUserId, {})

\* C15: when a connected user sends privacy:update {showConnectionStatus:false},
\* every connection watching that user receives, in the same step of the handler,
\* a presence:update for the user equal to {visible:false, online:false,
\* lastSeenAt:null}.
C15_HiddenAtOnce ==
    [][\A c \in Sockets, payload \in PrivacyPayloads :
          payload.showConnectionStatus = "false" /\ PrivacyUpdate(c, payload)
              => \A w \in WatchersOf(ThisUserId(c)) :
                    Event("presence:update", w, c, HiddenPayload(ThisUserId(c))) \in emitted'
      ]_vars

\* B, who shows its own status, watches A; A is connected and has just hidden its
\* status.
C15_Witness ==
    /\ "s3" \in WatchersOf("A")
    /\ isUserOnline(connectionsByUser, "A")
    /\ getPrivacy(privacyByUser, "B").showConnectionStatus
    /\ Event("presence:update", "s3", "s1", HiddenPayload("A")) \in emitted

----------------------------------------------------------------------------
(* A send whose insert fails *)

\* the handler t leaves pc in this step without a stored message
FailedAt(t, pc) ==
    /\ t \in tasks /\ t \notin tasks'
    /\ t.h = "message" /\ t.pc = pc
    /\ IF pc = "persist" THEN messages' = messages ELSE t.x.msg.id = 0

\* C16 (as claimed): when persisting a sent message fails, the sending connection
\* receives an explicit error, and nothing is delivered for that send: no message
\* event, no chat:preview event and no notification request.
C16_FailedSendReported ==
    [][\A t \in tasks :
          /\ FailedAt(t, "persist") => \E e \in emitted' : e.to = t.c /\ e.ev = "error"
          /\ FailedAt(t, "persist") \/ FailedAt(t, "notify") \/ FailedAt(t, "preview")
                => /\ issued' = {}
                   /\ \A e \in emitted' : e.ev \notin {"message", "chat:preview"}
      ]_vars

----------------------------------------------------------------------------
(* A send whose blocked-set lookup fails *)

\* C17: if the blocked-set lookup of a send fails, every connection of the room
\* snapshot that is still connected receives the message event, as if nobody had
\* blocked the sender.
C17_LookupFailureDelivers ==
    [][\A t \in tasks :
          MessageDeliver(t, FALSE)
              => \A s \in t.x.sockets :
                    status[s] = "open" => MessageEventFor(t, s) \in emitted'
      ]_vars

\* a message event has reached a connection whose user blocks the sender
C17_Witness ==
    \E e \in emitted :
        /\ e.ev = "message"
        /\ <<ThisUserId(e.to), e.payload.msg.sender_id>> \in user_blocks

----------------------------------------------------------------------------
(* server.js, socket.on('message'): the notification is awaited before the *)
(* room is enumerated, and the blocks are looked up socket by socket        *)

\* isBlockedBy(viewerId, senderId): false without an id and on an error result
isBlockedBy(blocks, viewerId, senderId, lookupOk) ==
    IF Falsy(viewerId) \/ Falsy(senderId) THEN FALSE
    ELSE IF ~lookupOk THEN FALSE
    ELSE <<viewerId, senderId>> \in blocks

ServerMessageSend(c, payload) ==
    /\ status[c] = "open"
    /\ RoomIdRaw(c, payload) # NoConv
    /\ hasText(payload) \/ hasImage(payload)
    /\ Len(messages) + Cardinality({t \in tasks : t.pc = "persist"}) < MaxMessages
    /\ LET t == Task("server.message", "persist", c, RoomIdRaw(c, payload),
                     MessageLocals(payload, NoMsg, {}, Null))
       IN /\ CanSuspend(t)
          /\ tasks' = tasks \cup {t}
    /\ Quiet
    /\ UNCHANGED << status, data, rooms, connectionsByUser, lastSeenByUser, privacyByUser,
                    chatEmailByUser, socketsWatchingUser, watchedUsersBySocket, user_blocks,
                    messages, clock, hist >>

\* resolveRoomId and addMessage have answered: "ok" (row inserted) or "error" (msg is
\* null); the handler goes on to resolveConversationMeta either way.
ServerMessagePersist(t, io) ==
    /\ t \in tasks
    /\ t.h = "server.message"
    /\ t.pc = "persist"
    /\ LET payload == t.x.payload
           convoId == resolveRoomId(t.conv)
           row     == MessageRow(messages, convoId, SenderId(t.c, payload), payload.text, clock)
       IN IF io = "ok"
          THEN /\ messages' = Append(messages, row)
               /\ clock' = Tick(clock)
               /\ hist' = hist \cup {<<row.id, p[1], p[2]>> : p \in user_blocks}
               /\ tasks' = (tasks \ {t}) \cup
                      {Task("server.message", "notify", t.c, convoId,
                            MessageLocals(payload, row, {}, Null))}
          ELSE /\ tasks' = (tasks \ {t}) \cup
                      {Task("server.message", "notify", t.c, convoId,
                            MessageLocals(payload, NoMsg, {}, Null))}
               /\ UNCHANGED << messages, clock, hist >>
    /\ Quiet
    /\ UNCHANGED << status, data, rooms, connectionsByUser, lastSeenByUser, privacyByUser,
                    chatEmailByUser, socketsWatchingUser, watchedUsersBySocket, user_blocks >>

\* resolveConversationMeta has answered: with a recipient createNotification is
\* called and awaited, without one the handler goes on to the room.
ServerMessageNotify(t) ==
    /\ t \in tasks
    /\ t.h = "server.message"
    /\ t.pc = "notify"
    /\ LET sender    == BackgroundSender(t.c, t.x)
           recipient == recipientUserId(sender, resolveConversationMeta(t.conv))
       IN IF ~Falsy(recipient)
          THEN /\ issued' = {[req |-> "createNotification", userId |-> recipient,
                              value |-> Preview(t.x.msg.text), conversationId |-> t.conv,
                              suppressEmail |-> ~MapGet(chatEmailByUser, recipient, FALSE)]}
               /\ tasks' = (tasks \ {t}) \cup
                      {Task("server.message", "await", t.c, t.conv,
                            MessageLocals(t.x.payload, t.x.msg, {}, recipient))}
          ELSE /\ issued' = {}
               /\ tasks' = (tasks \ {t}) \cup
                      {Task("server.message", "fetch", t.c, t.conv, t.x)}
    /\ emitted' = {}
    /\ lastQuery' = NoQuery
    /\ UNCHANGED << status, data, rooms, connectionsByUser, lastSeenByUser, privacyByUser,
                    chatEmailByUser, socketsWatchingUser, watchedUsersBySocket, user_blocks,
                    messages, clock, hist >>

\* createNotification has returned, or thrown into the empty catch
ServerNotified(t) ==
    /\ t \in tasks
    /\ t.h = "server.message"
    /\ t.pc = "await"
    /\ tasks' = (tasks \ {t}) \cup {Task("server.message", "fetch", t.c, t.conv, t.x)}
    /\ Quiet
    /\ UNCHANGED << status, data, rooms, connectionsByUser, lastSeenByUser, privacyByUser,
                    chatEmailByUser, socketsWatchingUser, watchedUsersBySocket, user_blocks,
                    messages, clock, hist >>

\* fetchSockets has answered: the snapshot the loop walks through
ServerMessageFetch(t) ==
    /\ t \in tasks
    /\ t.h = "server.message"
    /\ t.pc = "fetch"
    /\ LET sockets == fetchSockets(status, rooms, t.conv) IN
       tasks' = (tasks \ {t}) \cup
           (IF sockets = {} THEN {}
            ELSE {Task("server.message", "fanout", t.c, t.conv,
                       MessageLocals(t.x.payload, t.x.msg, sockets, t.x.recipient))})
    /\ Quiet
    /\ UNCHANGED << status, data, rooms, connectionsByUser, lastSeenByUser, privacyByUser,
                    chatEmailByUser, socketsWatchingUser, watchedUsersBySocket, user_blocks,
                    messages, clock, hist >>

\* One turn of the loop: isBlockedBy has answered for socket s of the snapshot (the
\* sockets are taken in any order).
ServerMessageFanout(t, s, lookupOk) ==
    /\ t \in tasks
    /\ t.h = "server.message"
    /\ t.pc = "fanout"
    /\ s \in t.x.sockets
    /\ emitted' =
         IF \/ isBlockedBy(user_blocks, ThisUserId(s), t.x.msg.sender_id, lookupOk)
            \/ t.x.msg.id = 0
         THEN {}
         ELSE Deliverable(status, {Event("message", s, t.c,
                                         [msg |-> t.x.msg, clientId |-> t.x.payload.clientId])})
    /\ tasks' = (tasks \ {t}) \cup
           (IF t.x.sockets = {s} THEN {}
            ELSE {Task("server.message", "fanout", t.c, t.conv,
                       MessageLocals(t.x.payload, t.x.msg, t.x.sockets \ {s}, t.x.recipient))})
    /\ issued' = {}
    /\ lastQuery' = NoQuery
    /\ UNCHANGED << status, data, rooms, connectionsByUser, lastSeenByUser, privacyByUser,
                    chatEmailByUser, socketsWatchingUser, watchedUsersBySocket, user_blocks,
                    messages, clock, hist >>

NextServerMessage ==
    \/ \E c \in Pair : Connect(c)
    \/ \E c \in Pair : JoinOrder(c, ConvA)
    \/ \E t \in tasks : ServerJoinResolved(t)
    \/ \E t \in tasks : JoinPresence(t)
    \/ Block("A", "B")
    \/ Unblock("A", "B")
    \/ \E c \in Pair, payload \in DeliverPayloads : ServerMessageSend(c, payload)
    \/ \E t \in tasks, io \in {"ok", "error"} : ServerMessagePersist(t, io)
    \/ \E t \in tasks : ServerMessageNotify(t)
    \/ \E t \in tasks : ServerNotified(t)
    \/ \E t \in tasks : ServerMessageFetch(t)
    \/ \E t \in tasks, s \in Sockets, lookupOk \in BOOLEAN : ServerMessageFanout(t, s, lookupOk)

\* the handler of connection c for payload and stored row id is at a step of kind A
Own(t, c, payload, id) ==
    t.h = "server.message" /\ t.c = c /\ t.x.payload = payload /\ t.x.msg.id = id

\* The database answers every query of every handler in the end; nothing makes
\* createNotification return.
SpecServerMessage ==
    /\ Init
    /\ [][NextServerMessage]_vars
    /\ \A c \in Pair :
          /\ WF_vars(\E t \in tasks : t.c = c /\ ServerJoinResolved(t))
          /\ WF_vars(\E t \in tasks : t.c = c /\ JoinPresence(t))
    /\ \A c \in Pair, payload \in DeliverPayloads, id \in 0..MaxMessages :
          /\ WF_vars(\E t \in tasks : Own(t, c, payload, id) /\ ServerMessagePersist(t, "ok"))
          /\ WF_vars(\E t \in tasks : Own(t, c, payload, id) /\ ServerMessageNotify(t))
          /\ WF_vars(\E t \in tasks : Own(t, c, payload, id) /\ ServerMessageFetch(t))
          /\ WF_vars(\E t \in tasks, s \in Sockets :
                        Own(t, c, payload, id) /\ ServerMessageFanout(t, s, TRUE))

\* a stored message whose handler has not finished its emit loop
Undelivered(t) == t.h = "server.message" /\ t.x.msg.id # 0

\* C18 (as claimed): delivery of a stored message never waits on the notification
\* call: even if createNotification never returns, the handler of every stored
\* message gets through its emit loop.
C18_DeliveryDoesNotWait ==
    (\E t \in tasks : Undelivered(t)) ~> (\A t \in tasks : ~Undelivered(t))

----------------------------------------------------------------------------
(* createNotification for a chat message, and the opt-in of the recipient *)

\* table user_settings: no row, or the two switches of the user
NoSettings == [none |-> TRUE]

UserSettings == {NoSettings} \cup [email_notifications : BOOLEAN, push_notifications : BOOLEAN]

\* createNotification with meta.kind = 'chat': the calls it makes after the insert.
\* settingsOk is false when reading user_settings gave an error, hasEmail is whether
\* the profile of the user has an email address.
createNotification(userId, chatEmailEnabled, suppressEmail, settings, settingsOk, hasEmail) ==
    LET emailNotifications == IF suppressEmail THEN FALSE ELSE chatEmailEnabled
        pushNotifications  == IF ~settingsOk \/ settings = NoSettings THEN FALSE
                              ELSE settings.push_notifications
    IN IF ~emailNotifications /\ ~pushNotifications THEN {}
       ELSE IF ~hasEmail THEN {}
       ELSE {[req |-> "sendEmail", userId |-> userId]}
            \cup (IF pushNotifications THEN {[req |-> "sendPushToUser", userId |-> userId]}
                  ELSE {})

\* createNotification has run and returned: its calls, then chat:preview to the
\* recipient's and the sender's channel.
NotificationReturned(t, settings, settingsOk, hasEmail) ==
    /\ t \in tasks
    /\ t.h = "message"
    /\ t.pc = "preview"
    /\ tasks' = tasks \ {t}
    /\ issued' = createNotification(t.x.recipient, t.x.chatEmailEnabled, ~t.x.chatEmailEnabled,
                                    settings, settingsOk, hasEmail)
    /\ LET sender == BackgroundSender(t.c, t.x) IN
       emitted' = PreviewEvents(status, t.x.recipient, t.c, t.conv, t.x.msg, sender)
                  \cup PreviewEvents(status, sender, t.c, t.conv, t.x.msg, sender)
    /\ lastQuery' = NoQuery
    /\ UNCHANGED << status, data, rooms, connectionsByUser, lastSeenByUser, privacyByUser,
                    chatEmailByUser, socketsWatchingUser, watchedUsersBySocket, user_blocks,
                    messages, clock, hist >>

NextEmail ==
    \/ \E c \in Pair : Connect(c)
    \/ \E enabled \in BOOLEAN : ChatEmailNotifications("s3", enabled)
    \/ MessageSend("s1", Payload(ConvA, "hola", Null, Null, "k1"))
    \/ \E t \in tasks : MessagePersist(t, "ok")
    \/ \E t \in tasks : MessageNotify(t)
    \/ \E t \in tasks, settings \in UserSettings, settingsOk \in BOOLEAN, hasEmail \in BOOLEAN :
          NotificationReturned(t, settings, settingsOk, hasEmail)

SpecEmail == Init /\ [][NextEmail]_vars

\* the recipient's most recent chat:emailNotifications said enabled = true
OptedIn(userId) == MapGet(chatEmailByUser, userId, FALSE) = TRUE

\* C19 (as claimed): the email permission of a chat notification is true exactly
\* when the recipient's latest chat:emailNotifications enabled it (false when none
\* was sent), and a chat email is sent only when that permission is true, whatever
\* the recipient's stored settings are.
C19_ChatEmailOnlyOnOptIn ==
    [][/\ \A r \in issued' :
             r.req = "createNotification"
                 => /\ r.chatEmailEnabled = OptedIn(r.userId)
                    /\ r.suppressEmail = ~OptedIn(r.userId)
       /\ \A t \in tasks :
             t.h = "message" /\ t.pc = "preview" /\ t \notin tasks'
                 => \A r \in issued' : r.req = "sendEmail" => t.x.chatEmailEnabled
      ]_vars

----------------------------------------------------------------------------
(* Orders and their conversation: joins and sends by order id and by the  *)
(* conversation id of the pair                                             *)

\* the two orders of business biz1 and customer A, and the pair's conversation id
PairIds == {Order1, Order2, ConvA}

NextOrders ==
    \/ \E c \in Pair : Connect(c)
    \/ \E c \in Pair, roomId \in PairIds : JoinOrder(c, roomId)
    \/ \E t \in tasks : JoinResolved(t)
    \/ \E t \in tasks : JoinPresence(t)
    \/ \E c \in Pair, chatId \in PairIds :
          MessageSend(c, Payload(chatId, "hola", Null, Null, "k1"))
    \/ \E t \in tasks : MessagePersist(t, "ok")
    \/ \E t \in tasks : MessageDeliver(t, TRUE)
    \/ \E t \in tasks : MessageNotify(t)
    \/ \E t \in tasks : MessagePreview(t)

SpecOrders == Init /\ [][NextOrders]_vars

\* conv:<business_id>:<customer_id> of the order row
ConversationOf(orderId) ==
    <<"conv", OrderRows[orderId].business_id, OrderRows[orderId].customer_id>>

\* C20: for every order with business b and customer c, resolving the order id
\* yields conv:<b>:<c>, which resolves to itself; so every room joined and every
\* row stored through an order id or through the pair's conversation id carries
\* that one id.
C20_OrdersShareConversation ==
    \A o \in DOMAIN OrderRows :
        /\ resolveRoomId(o) = ConversationOf(o)
        /\ resolveRoomId(ConversationOf(o)) = ConversationOf(o)
        /\ resolveConversationMeta(o).conversationId
               = resolveConversationMeta(ConversationOf(o)).conversationId
        /\ \A s \in Sockets : rooms[s] \subseteq {ConversationOf(o)}
        /\ \A i \in 1..Len(messages) : messages[i].order_id = ConversationOf(o)
        /\ \A e \in emitted : e.ev = "message" => e.payload.msg.order_id = ConversationOf(o)

\* two sends, one by each order id, are stored under the same conversation id while
\* both connections sit in its room
C20_Witness ==
    /\ rooms["s1"] = {ConvA} /\ rooms["s3"] = {ConvA}
    /\ \E t1, t2 \in tasks :
          /\ t1.h = "message" /\ t2.h = "message"
          /\ t1.x.payload.orderId = Order1 /\ t2.x.payload.orderId = Order2
          /\ t1.x.msg.id # 0 /\ t2.x.msg.id # 0
          /\ t1.x.msg.order_id = t2.x.msg.order_id

----------------------------------------------------------------------------
(* Access to a conversation by a user outside it *)

\* the resolver has determined the customer and the business owner of chatId
BothResolved(chatId) ==
    /\ ~Falsy(resolveConversationMeta(chatId).customerId)
    /\ ~Falsy(resolveConversationMeta(chatId).businessOwnerUserId)

\* C21 (as claimed): when both participants of a conversation are resolved, only
\* its customer and its business owner are in its room, receive its messages and
\* read its history.
C21_StrangersDenied ==
    /\ \A s \in Sockets : \A r \in rooms[s] :
          BothResolved(r) => ThisUserId(s) \in Participants(resolveConversationMeta(r))
    /\ \A e \in emitted :
          e.ev = "message" /\ BothResolved(e.payload.msg.order_id)
              => ThisUserId(e.to) \in Participants(resolveConversationMeta(e.payload.msg.order_id))
    /\ lastQuery.status = 200 /\ BothResolved(lastQuery.chatId)
          => lastQuery.viewer \in Participants(resolveConversationMeta(lastQuery.chatId))

----------------------------------------------------------------------------
(* Attended conversation: customer A sends only while the owner B has a   *)
(* connection in the room, and nobody leaves                               *)

\* A sends while B's connection is in the room of conversation A
AttendedSend(payload) ==
    /\ ConvA \in rooms["s3"]
    /\ MessageSend("s1", payload)

NextAttended ==
    \/ \E c \in Pair : Connect(c)
    \/ \E c \in Pair : JoinOrder(c, ConvA)
    \/ \E t \in tasks : JoinResolved(t)
    \/ \E t \in tasks : JoinPresence(t)
    \/ \E payload \in DeliverPayloads : AttendedSend(payload)
    \/ \E t \in tasks : MessagePersist(t, "ok")
    \/ \E t \in tasks : MessageDeliver(t, TRUE)
    \/ \E t \in tasks : MessageNotify(t)
    \/ \E t \in tasks : MessagePreview(t)

SpecAttended == Init /\ [][NextAttended]_vars

\* userId has a connection in the room of the conversation
PresentIn(userId, convoId) ==
    \E s \in fetchSockets(status, rooms, convoId) : ThisUserId(s) = userId

\* C22 (as claimed): a notification request is issued for a stored message when its
\* recipient has no connection in the conversation room, and none is issued when
\* the recipient has one.
C22_NotifiedOnlyWhenAbsent ==
    [][\A t \in tasks :
          Passed(t, "notify")
              => LET recipient == recipientUserId(BackgroundSender(t.c, t.x),
                                                  resolveConversationMeta(t.conv))
                 IN /\ ~Falsy(recipient) /\ ~PresentIn(recipient, t.conv)
                        => \E r \in issued' : r.req = "createNotification" /\ r.userId = recipient
                    /\ PresentIn(recipient, t.conv)
                        => \A r \in issued' : r.req # "createNotification"
      ]_vars

----------------------------------------------------------------------------
(* socket.on('typing') *)

\* payload?.conversationId || payload?.orderId || orderId
Typing(c, chatId, isTyping) ==
    /\ status[c] = "open"
    /\ ~Falsy(ThisUserId(c))
    /\ LET t == Task("typing", "resolve", c,
                     IF chatId = NoConv THEN HandshakeOrder[c] ELSE chatId,
                     [isTyping |-> isTyping])
       IN /\ CanSuspend(t)
          /\ tasks' = tasks \cup {t}
    /\ Quiet
    /\ UNCHANGED << status, data, rooms, connectionsByUser, lastSeenByUser, privacyByUser,
                    chatEmailByUser, socketsWatchingUser, watchedUsersBySocket, user_blocks,
                    messages, clock, hist >>

\* the other participant, only when customer and owner are both known
TypingRecipient(userId, meta) ==
    IF Falsy(meta.customerId) \/ Falsy(meta.businessOwnerUserId) THEN Null
    ELSE IF userId = meta.customerId THEN meta.businessOwnerUserId
    ELSE IF userId = meta.businessOwnerUserId THEN meta.customerId
    ELSE Null

\* the typing event as socket `to` receives it (its `at` timestamp is left out)
TypingEvent(to, by, convoId, isTyping) ==
    Event("typing", to, by,
          [conversationId |-> convoId, userId |-> ThisUserId(by), isTyping |-> isTyping])

\* resolveRoomId and resolveConversationMeta have answered: the event goes to the
\* room and to the personal channel of the other participant.
TypingEmit(t) ==
    /\ t \in tasks
    /\ t.h = "typing"
    /\ tasks' = tasks \ {t}
    /\ LET convoId   == resolveRoomId(t.conv)
           recipient == TypingRecipient(ThisUserId(t.c), resolveConversationMeta(convoId))
       IN emitted' =
            IF convoId = NoConv THEN {}
            ELSE { TypingEvent(s, t.c, convoId, t.x.isTyping) :
                   s \in fetchSockets(status, rooms, convoId)
                         \cup (IF Falsy(recipient) THEN {} ELSE UserRoom(status, recipient)) }
    /\ issued' = {}
    /\ lastQuery' = NoQuery
    /\ UNCHANGED << status, data, rooms, connectionsByUser, lastSeenByUser, privacyByUser,
                    chatEmailByUser, socketsWatchingUser, watchedUsersBySocket, user_blocks,
                    messages, clock, hist >>

----------------------------------------------------------------------------
(* Live events of a blocked user: B types, reads and sends in conversation *)
(* A while A blocks and unblocks B                                         *)

NextBlocked ==
    \/ \E c \in Pair : Connect(c)
    \/ JoinOrder("s1", ConvA)
    \/ \E t \in tasks : JoinResolved(t)
    \/ \E t \in tasks : JoinPresence(t)
    \/ Block("A", "B")
    \/ Unblock("A", "B")
    \/ Typing("s3", ConvA, TRUE)
    \/ \E t \in tasks : TypingEmit(t)
    \/ ReadReceipt("s3", ConvA)
    \/ \E t \in tasks : ReadEmit(t)
    \/ MessageSend("s3", Payload(ConvA, "hola", Null, Null, "k1"))
    \/ \E t \in tasks : MessagePersist(t, "ok")
    \/ \E t \in tasks : MessageDeliver(t, TRUE)
    \/ \E t \in tasks : MessageNotify(t)
    \/ \E t \in tasks : MessagePreview(t)

SpecBlocked == Init /\ [][NextBlocked]_vars

\* C23 (as claimed): while A blocks B, no typing, read or chat:preview event emitted
\* by a handler of B reaches a connection of A, and no chat notification for a
\* message of B is requested for A.
C23_LiveEventsFiltered ==
    \A blocker, blocked \in Users :
        <<blocker, blocked>> \in user_blocks
            => /\ \A e \in emitted :
                     /\ e.ev \in {"typing", "read", "chat:preview"}
                     /\ ThisUserId(e.by) = blocked
                     => ThisUserId(e.to) # blocker
               /\ \A r \in issued :
                     r.req = "createNotification" /\ r.userId = blocker
                         => \A t \in tasks :
                               t.h = "message" /\ t.pc = "preview" /\ t.x.recipient = blocker
                                   => BackgroundSender(t.c, t.x) # blocked

----------------------------------------------------------------------------
(* Payloads of `message` with any combination of text and image *)

AnyPayloads ==
    { Payload(ConvA, text, image, Null, "k1") : text \in {Null, "", " ", "hola"},
                                               image \in {Null, "data:"} }

NextPayloads ==
    \/ \E c \in Pair : Connect(c)
    \/ \E payload \in AnyPayloads : MessageSend("s1", payload)
    \/ \E t \in tasks, io \in {"ok", "error", "throw"} : MessagePersist(t, io)
    \/ \E t \in tasks : MessageNotify(t)
    \/ \E t \in tasks : MessagePreview(t)

SpecPayloads == Init /\ [][NextPayloads]_vars

\* C24 (as claimed): the handler goes on to persist only a payload with exactly one
\* of a non-empty text and an image; with neither or with both the handler
\* returns at once, so nothing is stored or emitted.
C24_TextXorImage ==
    \A t \in tasks :
        t.h = "message" => \/ hasText(t.x.payload) /\ ~hasImage(t.x.payload)
                           \/ ~hasText(t.x.payload) /\ hasImage(t.x.payload)

----------------------------------------------------------------------------
(* What a presence:watch request accepts and what its snapshot covers *)

\* the subjects among the first WatchCap non-blank entries of the request
FirstEntries(raw) ==
    LET kept == SelectSeq(raw, LAMBDA v : ~Falsy(v))
    IN {kept[i] : i \in 1..Min(Len(kept), WatchCap)}

\* the first WatchCap entries of the request once deduplicated and rid of self
FirstOfDistinct(raw, self) ==
    LET others == SelectSeq(Dedupe(SelectSeq(raw, LAMBDA v : ~Falsy(v))), LAMBDA v : v # self)
    IN {others[i] : i \in 1..Min(Len(others), WatchCap)}

\* presence:watch, with the latest request kept in the history variable as
\* <<n, socket, raw>>, n alternating between 0 and 1 from one request to the next
PresenceWatchAsked(c, raw) ==
    /\ PresenceWatchHandler(c, raw)
    /\ hist' = {<<IF \E h \in hist : h[1] = 0 THEN 1 ELSE 0, c, raw>>}

NextAccept ==
    \/ \E c \in Pair : Connect(c)
    \/ \E payload \in PrivacyPayloads : PrivacyUpdate("s1", payload)
    \/ \E c \in Pair, raw \in WatchRequests : PresenceWatchAsked(c, raw)

SpecAccept == Init /\ [][NextAccept]_vars

\* the subjects of the presence:update events of the step, all of them sent to c
SnapshotFor(c, subjects) ==
    /\ \A e \in emitted' : e.ev = "presence:update" /\ e.to = c
    /\ {e.payload.userId : e \in emitted'} = subjects

\* the step is a presence:watch
WatchStep == hist' # hist

\* C25 (as claimed): the watch set accepted by presence:watch is the request
\* deduplicated, then rid of the requester's own id, then cut to its first 200
\* entries, and the snapshot holds one presence:update for each accepted subject and
\* none for the requester's own id.
C25_DedupeSelfThenCap ==
    [][WatchStep =>
          \A h \in hist' :
              /\ MapGet(watchedUsersBySocket', h[2], {}) = FirstOfDistinct(h[3], ThisUserId(h[2]))
              /\ SnapshotFor(h[2], FirstOfDistinct(h[3], ThisUserId(h[2])))
      ]_vars

\* C25 (amended): the request is cut to its first 200 non-blank entries and then
\* deduplicated; the watch set is that list without the requester's own id, and the
\* snapshot holds one presence:update for each entry of the list, the requester's
\* own id included when it is listed.
C25_CapThenDedupe ==
    [][WatchStep =>
          \A h \in hist' :
              /\ MapGet(watchedUsersBySocket', h[2], {}) = FirstEntries(h[3]) \ {ThisUserId(h[2])}
              /\ SnapshotFor(h[2], FirstEntries(h[3]))
      ]_vars

\* A has asked for <<A, B>>: it watches B alone and was sent both snapshots
C25_Witness ==
    /\ Watched("s1") = {"B"}
    /\ {e.payload.userId : e \in {d \in emitted : d.to = "s1" /\ d.by = "s1"}} = {"A", "B"}

----------------------------------------------------------------------------
(* Presence transitions: the subject's connections come and go while two    *)
(* connections of user A watch, stop watching, leave and change A's privacy *)

NextTransitions ==
    \/ \E c \in Sockets : Connect(c)
    \/ \E c \in Sockets : Disconnect(c)
    \/ \E t \in tasks : DisconnectNotify(t)
    \/ \E payload \in PrivacyPayloads : PrivacyUpdate("s1", payload)
    \/ \E c \in Watchers, raw \in ReplaceRequests : PresenceWatch(c, raw)

\* The last-seen write of every disconnect is answered, or fails, in the end.
SpecTransitions ==
    /\ Init
    /\ [][NextTransitions]_vars
    /\ \A c \in Sockets : WF_vars(\E t \in tasks : t.c = c /\ DisconnectNotify(t))

\* connection w is being sent the presence of subject as w's user may see it now
Told(w, subject) ==
    \E e \in emitted :
        /\ e.ev = "presence:update"
        /\ e.to = w
        /\ e.payload = makePresencePayload(privacyByUser, connectionsByUser, lastSeenByUser,
                                           ThisUserId(w), subject)

\* the last connection of subject has closed, its handler has not yet told the
\* watchers, and the open connection w watches subject
WentOffline(w, subject) ==
    /\ status[w] = "open"
    /\ subject \in Watched(w)
    /\ Count(subject) = 0
    /\ \E t \in tasks : t.h = "disconnect" /\ ThisUserId(t.c) = subject

\* the step is the first connection of subject being opened
CameOnline(subject) ==
    /\ Count(subject) = 0
    /\ MapGet(connectionsByUser', subject, 0) = 1

\* the watchers of subject that are connected after the step are all told in it
WatchersToldNext(subject) ==
    \A w \in WatchersOf(subject) :
        status'[w] = "open" =>
            \E e \in emitted' :
                /\ e.ev = "presence:update"
                /\ e.to = w
                /\ e.payload = makePresencePayload(privacyByUser', connectionsByUser',
                                   lastSeenByUser', ThisUserId(w), subject)

\* C26 (as claimed): whenever the counter of a subject goes from 0 to 1 or from 1
\* to 0, every connection that watches the subject at that time and stays
\* connected eventually receives a presence:update for the subject, computed with
\* the watcher's own privacy settings and the subject's state at emission time.
C26_WatchersEventuallyTold ==
    /\ [][\A u \in Users : CameOnline(u) => WatchersToldNext(u)]_vars
    /\ \A w \in Sockets, u \in Users :
          WentOffline(w, u) ~> (Told(w, u) \/ status[w] # "open")

\* C26 (amended): the same, for the watchers that still watch the subject when the
\* disconnect handler resumes after its last-seen write: a connection that has
\* replaced its watch list in between is not told.
C26_StillWatchingTold ==
    /\ [][\A u \in Users : CameOnline(u) => WatchersToldNext(u)]_vars
    /\ \A w \in Sockets, u \in Users :
          WentOffline(w, u) ~> (Told(w, u) \/ status[w] # "open" \/ u \notin Watched(w))

\* The handler of B's closed connection tells s1, which watches B and hides its
\* own status, that B cannot be seen.
C26_Witness ==
    /\ Count("B") = 0
    /\ "B" \in Watched("s1")
    /\ ~getPrivacy(privacyByUser, "A").showConnectionStatus
    /\ Told("s1", "B")
    /\ \E e \in emitted : e.to = "s1" /\ e.by = "s3" /\ e.payload = HiddenPayload("B")

----------------------------------------------------------------------------
(* The connection counter against the connections that are open *)

\* the connections of userId that are open
OpenConnections(userId) == {s \in Sockets : status[s] = "open" /\ ThisUserId(s) = userId}

\* C27: under every interleaving of connect and disconnect callbacks at their
\* suspension points, the counter of each user equals the number of that user's
\* open connections; a disconnect handler suspended at its last-seen write has
\* already taken its connection out of the counter.
C27_CounterIsOpenConnections ==
    /\ \A u \in Users : Count(u) = Cardinality(OpenConnections(u))
    /\ \A t \in tasks :
          t.h = "disconnect" =>
              /\ status[t.c] = "closed"
              /\ Count(ThisUserId(t.c)) = Cardinality(OpenConnections(ThisUserId(t.c)) \ {t.c})

\* Two disconnect handlers, of a connection of A and of B's only connection, are
\* both suspended at their last-seen writes while A's other connection is open.
C27_Witness ==
    /\ \E t \in tasks : t.h = "disconnect" /\ t.c = "s1"
    /\ \E t \in tasks : t.h = "disconnect" /\ t.c = "s3"
    /\ status["s2"] = "open"
    /\ Count("A") = 1
    /\ Count("B") = 0

----------------------------------------------------------------------------
(* The two watch indexes: connections watch, replace their lists and leave *)

IndexRequests == { << >>, <<"B">>, <<"C">>, <<"B", "C">> }

\* disconnect, with <<1, socket, subject>> logged for every subject the socket
\* watched when it left, in place of what was logged for the socket before
DisconnectLogged(c) ==
    /\ DisconnectHandler(c)
    /\ hist' = {h \in hist : h[2] # c} \cup { <<1, c, u>> : u \in Watched(c) }

NextIndex ==
    \/ \E c \in Sockets : Connect(c)
    \/ \E c \in Sockets : DisconnectLogged(c)
    \/ \E t \in tasks : DisconnectNotify(t)
    \/ \E c \in Watchers, raw \in IndexRequests : PresenceWatch(c, raw)

SpecIndex == Init /\ [][NextIndex]_vars

\* C28: the forward index (connection -> watched subjects) and the reverse index
\* (subject -> watching connections) are exact inverses in every reachable state,
\* no subject maps to an empty watcher set, and neither index contains a
\* connection that has disconnected.
C28_IndexesAreInverses ==
    /\ \A c \in Sockets, u \in DOMAIN socketsWatchingUser \cup Users :
          (c \in WatchersOf(u)) <=> (u \in Watched(c))
    /\ \A c \in DOMAIN watchedUsersBySocket :
          \A u \in watchedUsersBySocket[c] : c \in WatchersOf(u)
    /\ \A u \in DOMAIN socketsWatchingUser : socketsWatchingUser[u] # {}
    /\ \A c \in Sockets :
          status[c] # "open" =>
              /\ c \notin DOMAIN watchedUsersBySocket
              /\ \A u \in DOMAIN socketsWatchingUser : c \notin socketsWatchingUser[u]

\* s1 left while it watched B and C; s2, still connected, watches B alone: B's
\* watcher set is {s2} and C has no entry.
C28_Witness ==
    /\ status["s1"] = "closed"
    /\ <<1, "s1", "B">> \in hist
    /\ <<1, "s1", "C">> \in hist
    /\ status["s2"] = "open"
    /\ socketsWatchingUser = ("B" :> {"s2"})
    /\ watchedUsersBySocket = ("s2" :> {"B"})

----------------------------------------------------------------------------
(* Whose message it is *)

\* C29 (as claimed): every message persisted and delivered through the message
\* event carries as sender id the user id bound to the sending connection at
\* handshake: the row a handler has stored, and every message event it emits,
\* name the handshake user of the handler's connection.
C29_SenderIsHandshakeUser ==
    /\ \A t \in tasks :
          (t.h = "message" /\ t.x.msg # NoMsg) => t.x.msg.sender_id = ThisUserId(t.c)
    /\ \A e \in emitted :
          e.ev = "message" => e.payload.msg.sender_id = ThisUserId(e.by)

----------------------------------------------------------------------------
(* What a watcher was last told: s1 of user A watches B, B comes and goes, *)
(* and both change their privacy                                           *)

\* hist keeps <<2, connection, subject, payload>>: the last presence:update the
\* connection received for the subject
Heard(h, evs) ==
    LET updates == {e \in evs : e.ev = "presence:update"}
    IN {r \in h : \A e \in updates : ~(e.to = r[2] /\ e.payload.userId = r[3])}
           \cup {<<2, e.to, e.payload.userId, e.payload>> : e \in updates}

ConnectHeard(c) == ConnectHandler(c) /\ hist' = Heard(hist, emitted')

DisconnectHeard(c) == DisconnectHandler(c) /\ hist' = Heard(hist, emitted')

DisconnectNotifyHeard(t) == DisconnectNotifyHandler(t) /\ hist' = Heard(hist, emitted')

PrivacyUpdateHeard(c, payload) ==
    PrivacyUpdateHandler(c, payload) /\ hist' = Heard(hist, emitted')

PresenceWatchHeard(c, raw) == PresenceWatchHandler(c, raw) /\ hist' = Heard(hist, emitted')

NextHeard ==
    \/ \E c \in Pair : ConnectHeard(c)
    \/ DisconnectHeard("s3")
    \/ \E t \in tasks : DisconnectNotifyHeard(t)
    \/ \E c \in Pair, payload \in PrivacyPayloads : PrivacyUpdateHeard(c, payload)
    \/ PresenceWatchHeard("s1", <<"B">>)

SpecHeard == Init /\ [][NextHeard]_vars

\* C30 (as claimed): when no handler is suspended, for every connection V that
\* watches subject S, the last presence:update V received for S equals the payload
\* computed from the current state (the privacy of both users, S's online state
\* and last-seen).
C30_LastUpdateIsCurrent ==
    tasks = {} =>
        \A v \in Sockets :
            status[v] = "open" =>
                \A subject \in Watched(v) :
                    <<2, v, subject,
                      makePresencePayload(privacyByUser, connectionsByUser, lastSeenByUser,
                                          ThisUserId(v), subject)>> \in hist

=============================================================================
